---- MODULE Spec2Model ----
(***************************************************************************)
(* Remediation safety-and-learning subsystem of intelligent-sre-mcp:       *)
(*   - HealingActionLimiter (tools/healing_actions.py): the in-memory      *)
(*     admission gate (hourly rate, blast radius, per-type cooldown);      *)
(*   - HealingActions (tools/healing_actions.py): the eight remediation    *)
(*     verbs, each validate -> gate -> execute -> record;                  *)
(*   - ActionHistoryStore (tools/action_learning.py): the durable tables   *)
(*     healing_actions, agent_activity and problems.                       *)
(* Time is counted in seconds.  One verb invocation is one atomic step     *)
(* (requests are served one at a time in this model).                      *)
(***************************************************************************)
EXTENDS Integers, Sequences, FiniteSets, TLC

(***************************************************************************)
(* Bounds of the exploration.                                              *)
(***************************************************************************)
\* verb invocations per behaviour, after the initial retry storm (see Invoke)
MaxOps == 1
\* clock advances per behaviour
MaxTicks == 1
\* problem-store operations per behaviour (SpecProblems)
MaxProblemOps == 5
\* store operations per behaviour (SpecStore)
MaxStoreOps == 3
MaxRequests == 2
MaxRows == 3
\* rows of a table of the store (SpecProblems, SpecStore)
MaxProblems == 2

\* The amounts by which the clock advances: 2 s before the cooldown ends,
\* exactly one cooldown, exactly one hour.
TickSteps == {298, 300, 3600}

(***************************************************************************)
(* Program constants.                                                      *)
(***************************************************************************)
max_actions_per_hour == 10
max_pods_per_action == 5
cooldown_minutes == 5
SecondsPerMinute == 60
OneHour == 60 * SecondsPerMinute
OneDay == 24 * OneHour
CooldownSeconds == cooldown_minutes * SecondsPerMinute
\* None (an absent id, a NULL problem_id); row ids start at 1
NoId == 0
max_attempts == 15

VARIABLES
    now,              \* datetime.utcnow(), in seconds
    action_history,   \* HealingActionLimiter.action_history
    healing_actions,  \* table healing_actions
    agent_activity,   \* table agent_activity
    problems,         \* table problems
    tie_break,        \* the engine's order among rows with equal sort keys
    cluster,          \* the cluster objects the verbs read and patch
    request,          \* the last invocation: verb and arguments
    result,           \* what the last invocation returned (or the fault raised)
    calls,            \* mutating collaborator calls issued by the last invocation
    gated,            \* can_perform_action calls made by the last invocation
    problem_calls,    \* the last three calls made to the problems table
    threads,          \* requests served at the same time: where each one stands
    current_problem_id,   \* the context variable _current_problem_id
    CURRENT_PROBLEM_ID,   \* the environment variable of that name
    http,             \* the request in the hands of the HTTP middleware
    tool_invocations, \* the tool_invocations table
    attempt,          \* requests sent so far by a client that repeats one request
    ops, ticks, store_faults, pops

vars == <<now, action_history, healing_actions, agent_activity, problems,
          tie_break, cluster, request, result, calls, gated, problem_calls,
          threads, current_problem_id, CURRENT_PROBLEM_ID, http, tool_invocations, attempt,
          ops, ticks, store_faults, pops>>

problem_vars == <<problems, tie_break, problem_calls, pops>>

\* what the sequential specifications leave alone
idle_vars ==
    <<threads, current_problem_id, CURRENT_PROBLEM_ID, http, tool_invocations, attempt>>

healing_vars == <<action_history, healing_actions, agent_activity, cluster,
                  request, result, calls, gated, ops, store_faults>>

(***************************************************************************)
(* Formatted texts (f-strings): the fixed wording and the values put in.   *)
(***************************************************************************)
Msg(text, n, max, type) == [text |-> text, n |-> n, max |-> max, type |-> type]
Plain(text) == Msg(text, 0, 0, "")

\* f"{x:.1f}" of x = seconds/60 minutes, as a number of tenths of a minute:
\* the nearest multiple of 6 s.  (No tick of TickSteps leaves a remainder of
\* exactly 3 s, where the binary rounding of the float decides.)
FormatTenths(seconds) == (seconds + 3) \div 6

(***************************************************************************)
(* HealingActionLimiter                                                    *)
(***************************************************************************)
\* the hour counted with its first instant
RecentActions_inclusive(hist, t) == SelectSeq(hist, LAMBDA a : a.timestamp >= t - OneHour)

RecentActions(hist, t) == SelectSeq(hist, LAMBDA a : a.timestamp > t - OneHour)

\* a cooldown that only a successful action starts
SameTypeActions_successes(hist, t, action_type) ==
    SelectSeq(hist, LAMBDA a : /\ a.action_type = action_type
                               /\ a.success
                               /\ a.timestamp > t - CooldownSeconds)

SameTypeActions(hist, t, action_type) ==
    SelectSeq(hist, LAMBDA a : /\ a.action_type = action_type
                               /\ a.timestamp > t - CooldownSeconds)

\* the remaining time taken from the oldest entry of the window
CooldownRemaining_oldest(same, t) == CooldownSeconds - (t - same[1].timestamp)

\* last_action = same_type_actions[-1]
CooldownRemaining(same, t) == CooldownSeconds - (t - same[Len(same)].timestamp)

\* no hourly limit at all
RateLimitExceeded_never(recent) == FALSE

\* the limit itself still admitted
RateLimitExceeded_strict(recent) == Len(recent) > max_actions_per_hour

RateLimitExceeded(recent) == Len(recent) >= max_actions_per_hour

\* one resource more than the limit still admitted
BlastRadiusTooLarge_lenient(affected_resources) ==
    affected_resources > max_pods_per_action + 1

BlastRadiusTooLarge(affected_resources) == affected_resources > max_pods_per_action

\* the blast radius examined before the hourly rate
can_perform_action_blast_first(hist, t, action_type, affected_resources) ==
    LET recent == RecentActions(hist, t)
        same   == SameTypeActions(hist, t, action_type)
    IN  IF BlastRadiusTooLarge(affected_resources)
        THEN [allowed |-> FALSE,
              reason  |-> Msg("Blast radius too large", affected_resources,
                              max_pods_per_action, "")]
        ELSE IF RateLimitExceeded(recent)
        THEN [allowed |-> FALSE,
              reason  |-> Msg("Rate limit exceeded", Len(recent), max_actions_per_hour, "")]
        ELSE IF same # <<>>
        THEN [allowed |-> FALSE,
              reason  |-> Msg("Cooldown active",
                              FormatTenths(CooldownRemaining(same, t)), 0, action_type)]
        ELSE [allowed |-> TRUE, reason |-> Plain("Action allowed")]

can_perform_action(hist, t, action_type, affected_resources) ==
    LET recent == RecentActions(hist, t)
        same   == SameTypeActions(hist, t, action_type)
    IN  IF RateLimitExceeded(recent)
        THEN [allowed |-> FALSE,
              reason  |-> Msg("Rate limit exceeded", Len(recent), max_actions_per_hour, "")]
        ELSE IF BlastRadiusTooLarge(affected_resources)
        THEN [allowed |-> FALSE,
              reason  |-> Msg("Blast radius too large", affected_resources,
                              max_pods_per_action, "")]
        ELSE IF same # <<>>
        THEN [allowed |-> FALSE,
              reason  |-> Msg("Cooldown active",
                              FormatTenths(CooldownRemaining(same, t)), 0, action_type)]
        ELSE [allowed |-> TRUE, reason |-> Plain("Action allowed")]

\* the log never pruned
LimiterAppend_unpruned(hist, t, action_type, namespace, resource, success, details) ==
    Append(hist, [timestamp   |-> t,
                  action_type |-> action_type,
                  namespace   |-> namespace,
                  resource    |-> resource,
                  success     |-> success,
                  details     |-> details])

\* the log keeping every attempt as a success
LimiterAppend_optimistic(hist, t, action_type, namespace, resource, success, details) ==
    SelectSeq(Append(hist, [timestamp   |-> t,
                            action_type |-> action_type,
                            namespace   |-> namespace,
                            resource    |-> resource,
                            success     |-> TRUE,
                            details     |-> details]),
              LAMBDA a : a.timestamp > t - OneDay)

\* record_action, the in-memory part: append, then keep the last 24 hours
LimiterAppend(hist, t, action_type, namespace, resource, success, details) ==
    SelectSeq(Append(hist, [timestamp   |-> t,
                            action_type |-> action_type,
                            namespace   |-> namespace,
                            resource    |-> resource,
                            success     |-> success,
                            details     |-> details]),
              LAMBDA a : a.timestamp > t - OneDay)

(***************************************************************************)
(* ActionHistoryStore: healing_actions and agent_activity                  *)
(***************************************************************************)
\* An environment variable: unset, or set to a text (a sequence of characters)
Unset == [set |-> FALSE, text |-> <<>>]
Env(text) == [set |-> TRUE, text |-> text]

Digits == <<"0", "1", "2", "3", "4", "5", "6", "7", "8", "9">>
IsDigit(c) == \E d \in DOMAIN Digits : Digits[d] = c
DigitValue(c) == (CHOOSE d \in DOMAIN Digits : Digits[d] = c) - 1

RECURSIVE StripLeft(_)
StripLeft(text) ==
    IF text # <<>> /\ Head(text) = " " THEN StripLeft(Tail(text)) ELSE text

RECURSIVE StripRight(_)
StripRight(text) ==
    IF text # <<>> /\ text[Len(text)] = " "
    THEN StripRight(SubSeq(text, 1, Len(text) - 1)) ELSE text

RECURSIVE DecimalValue(_)
DecimalValue(digits) ==
    IF digits = <<>> THEN 0
    ELSE 10 * DecimalValue(SubSeq(digits, 1, Len(digits) - 1))
             + DigitValue(digits[Len(digits)])

\* int(text): surrounding blanks dropped, an optional sign, then digits only;
\* anything else raises ValueError
ParseInt(text) ==
    LET stripped == StripRight(StripLeft(text))
        signed   == stripped # <<>> /\ Head(stripped) \in {"+", "-"}
        digits   == IF signed THEN Tail(stripped) ELSE stripped
    IN  IF digits = <<>> \/ \E i \in DOMAIN digits : ~IsDigit(digits[i])
        THEN [ok |-> FALSE, value |-> 0]
        ELSE [ok |-> TRUE,
              value |-> IF signed /\ Head(stripped) = "-" THEN -DecimalValue(digits)
                        ELSE DecimalValue(digits)]

\* the environment consulted before the request context
resolve_problem_id_env_first(problem_id, context_value, env_value) ==
    IF problem_id # NoId THEN problem_id
    ELSE IF env_value.set /\ env_value.text # <<>> /\ ParseInt(env_value.text).ok
    THEN ParseInt(env_value.text).value
    ELSE IF context_value # NoId THEN context_value
    ELSE NoId

\* _resolve_problem_id
resolve_problem_id(problem_id, context_value, env_value) ==
    IF problem_id # NoId THEN problem_id
    ELSE IF context_value # NoId THEN context_value
    ELSE IF ~env_value.set \/ env_value.text = <<>> THEN NoId
    ELSE IF ParseInt(env_value.text).ok THEN ParseInt(env_value.text).value
    ELSE NoId

store_record_action(rows, t, action_type, namespace, resource, success, details, problem_id) ==
    Append(rows, [id          |-> Len(rows) + 1,
                  timestamp   |-> t,
                  action_type |-> action_type,
                  namespace   |-> namespace,
                  resource    |-> resource,
                  success     |-> success,
                  details     |-> details,
                  problem_id  |-> resolve_problem_id(problem_id, current_problem_id,
                                                     CURRENT_PROBLEM_ID),
                  outcome     |-> "",
                  resolution_time_seconds |-> NoId,
                  notes       |-> Plain("")])

store_record_agent_activity(rows, t, intent, inputs_summary, action_taken, outcome, notes, problem_id) ==
    Append(rows, [id             |-> Len(rows) + 1,
                  timestamp      |-> t,
                  intent         |-> intent,
                  inputs_summary |-> inputs_summary,
                  action_taken   |-> action_taken,
                  outcome        |-> outcome,
                  notes          |-> notes,
                  problem_id     |-> resolve_problem_id(problem_id, current_problem_id,
                                                        CURRENT_PROBLEM_ID)])

\* every statement counted as having matched one row
RowCount_one(rows, id) == 1

\* cursor.rowcount of UPDATE ... WHERE id = ?
RowCount(rows, id) == Cardinality({i \in DOMAIN rows : rows[i].id = id})

(***************************************************************************)
(* The cluster collaborator.  The node and the deployment are state; pod   *)
(* listings are inputs of the invocation (pods come and go on their own).  *)
(***************************************************************************)
Namespace == "default"
PodName == "web-0"
NodeName == "node-1"
DeploymentName == "web"

\* outcome of the collaborator calls of one invocation: all succeed, the
\* read/list call raises ApiException, or the mutating call raises it
ApiOutcomes == {"none", "read", "write"}
\* which store write of record_action fails, if any
StoreOutcomes == {"none", "action", "activity"}

\* number of pods in phase Failed/Succeeded/Unknown that the listing returns
FailedPodCounts == {0, 2, 6}
\* replica targets asked of scale_deployment
ReplicaTargets == {1, 3, 9}
\* revision=None of rollback_deployment
Revisions == {NoId}

Pod(name, namespace, mirror, daemonset) ==
    [name |-> name, namespace |-> namespace, mirror |-> mirror, daemonset |-> daemonset]

\* pods scheduled on the node, as list_pod_for_all_namespaces returns them
NodePodLists ==
    { <<>>,
      << Pod("kube-proxy", "kube-system", FALSE, TRUE) >>,
      << Pod("fluentd", "logging", FALSE, TRUE),
         Pod("coredns", "kube-system", FALSE, FALSE),
         Pod("web-0", "default", FALSE, FALSE),
         Pod("etcd", "default", TRUE, FALSE) >>,
      [i \in 1..6 |-> Pod("job", "batch", FALSE, FALSE)] }

(***************************************************************************)
(* Results of the verbs                                                    *)
(***************************************************************************)
Res(success, action, error, message, dry_run, count) ==
    [fault |-> FALSE, success |-> success, action |-> action, error |-> error,
     message |-> message, dry_run |-> dry_run, action_id |-> NoId, count |-> count,
     would_be_blocked |-> FALSE, block_reason |-> Plain(""),
     pods |-> <<>>, evicted_pods |-> <<>>, failed_evictions |-> <<>>, skipped_pods |-> <<>>]

\* an exception that leaves the verb (sqlite3.Error, psycopg2.Error)
Fault ==
    [fault |-> TRUE, success |-> FALSE, action |-> "", error |-> Plain("StorageError"),
     message |-> Plain(""), dry_run |-> FALSE, action_id |-> NoId, count |-> 0,
     would_be_blocked |-> FALSE, block_reason |-> Plain(""),
     pods |-> <<>>, evicted_pods |-> <<>>, failed_evictions |-> <<>>, skipped_pods |-> <<>>]

NoResult == Res(FALSE, "", Plain(""), Plain(""), FALSE, 0)

\* no request in the hands of the middleware
NoRequest == [phase |-> "idle", header_problem_id |-> NoId, request_problem_id |-> NoId,
              fingerprint |-> "", actions |-> 0, activity |-> 0]

\* f"{n} pods"
PodsLabel(n) == <<"0 pods", "1 pods", "2 pods", "3 pods", "4 pods", "5 pods">>[n + 1]

Abs(x) == IF x < 0 THEN -x ELSE x

(***************************************************************************)
(* Shapes shared by the verbs                                              *)
(***************************************************************************)
\* A behaviour may open with a storm of scale requests whose read fails,
\* outside the budget: this is how the log fills up to the hourly limit.
\* The storm stops at once, two entries short of the limit, or at the limit.
StormSettled ==
    \/ ops > 0
    \/ Len(action_history) \in {0, max_actions_per_hour - 2, max_actions_per_hour}

RetryStorm(replicas, dry_run, api, sf) ==
    /\ ops = 0 /\ ticks = 0
    /\ Len(action_history) < max_actions_per_hour
    /\ replicas = 1 /\ ~dry_run /\ api = "read" /\ sf = "none"
    /\ UNCHANGED ops

\* One more invocation of the budget.  A behaviour ends with the invocation
\* that meets a storage failure.
Invoke ==
    /\ StormSettled
    /\ store_faults = 0
    /\ ops < MaxOps
    /\ ops' = ops + 1

\* api: which collaborator call of the invocation raised ("batch": the call
\* for some pod inside the loop of a batch verb)
Request(verb, dry_run, api, arg) ==
    request' = [verb |-> verb, dry_run |-> dry_run, api |-> api, arg |-> arg]

\* the branch taken consults neither the collaborator's outcome nor the store
Unused(api, sf) == api = "none" /\ sf = "none"

\* a return without record_action, the mutating call having gone out
NoRecord_after_call(res, cs, g) ==
    /\ result' = res /\ calls' = Append(cs, "mutating_call") /\ gated' = g
    /\ UNCHANGED <<action_history, healing_actions, agent_activity, store_faults>>

\* a gate that writes each check it makes into the log
NoRecord_logging_check(res, cs, g) ==
    /\ result' = res /\ calls' = cs /\ gated' = g
    /\ action_history' =
          IF g = 0 THEN action_history
          ELSE LimiterAppend(action_history, now, res.action, "-", "-", res.success,
                             Plain("checked"))
    /\ UNCHANGED <<healing_actions, agent_activity, store_faults>>

\* a return without record_action
NoRecord(res, cs, g) ==
    /\ result' = res /\ calls' = cs /\ gated' = g
    /\ UNCHANGED <<action_history, healing_actions, agent_activity, store_faults>>

\* the storage error swallowed: the verb returns its result all the same
RecordOutcome_swallowed(res, action_id, sf) == [res EXCEPT !.action_id = action_id]

\* What the verb returns after self.limiter.record_action(...): its result
\* with the action id, unless a store write raised, which no handler of the
\* verb catches (they catch ApiException only).
RecordOutcome(res, action_id, sf) ==
    IF sf = "none" THEN [res EXCEPT !.action_id = action_id] ELSE Fault

\* the record written as if no gate had been asked
limiter_record_action_unasked(action_type, namespace, resource, success, details, sf, res, cs, g) ==
    /\ store_faults' = IF sf = "none" THEN store_faults ELSE store_faults + 1
    /\ action_history' =
          LimiterAppend(action_history, now, action_type, namespace, resource, success, details)
    /\ healing_actions' =
          IF sf = "action" THEN healing_actions
          ELSE store_record_action(healing_actions, now, action_type, namespace,
                                   resource, success, details, NoId)
    /\ agent_activity' =
          IF sf # "none" THEN agent_activity
          ELSE store_record_agent_activity(agent_activity, now, "healing_action",
                                           <<action_type, namespace, resource>>,
                                           <<action_type, "executed">>,
                                           IF success THEN "success" ELSE "failed",
                                           details, NoId)
    /\ result' = RecordOutcome(res, Len(healing_actions) + 1, sf)
    /\ calls' = cs /\ gated' = 0

\* HealingActionLimiter.record_action followed by the verb's return
limiter_record_action(action_type, namespace, resource, success, details, sf, res, cs, g) ==
    /\ store_faults' = IF sf = "none" THEN store_faults ELSE store_faults + 1
    /\ action_history' =
          LimiterAppend(action_history, now, action_type, namespace, resource, success, details)
    /\ healing_actions' =
          IF sf = "action" THEN healing_actions
          ELSE store_record_action(healing_actions, now, action_type, namespace,
                                   resource, success, details, NoId)
    /\ agent_activity' =
          IF sf # "none" THEN agent_activity
          ELSE store_record_agent_activity(agent_activity, now, "healing_action",
                                           <<action_type, namespace, resource>>,
                                           <<action_type, "executed">>,
                                           IF success THEN "success" ELSE "failed",
                                           details, NoId)
    /\ result' = RecordOutcome(res, Len(healing_actions) + 1, sf)
    /\ calls' = cs /\ gated' = g

\* the gate consulted only after the mutating call went out
deny_after_call(action_type, reason, dry_run, count) ==
    NoRecord(Res(FALSE, action_type, reason, Plain(""), dry_run, count),
             <<"mutating_call">>, 1)

\* the gate refused: the verb returns the reason and touches nothing
deny(action_type, reason, dry_run, count) ==
    NoRecord(Res(FALSE, action_type, reason, Plain(""), dry_run, count), <<>>, 1)

\* the handler returns the error without recording the attempt
api_failure_unrecorded(action_type, namespace, resource, failed, dry_run, sf, cs, g) ==
    NoRecord(Res(FALSE, action_type, failed, Plain(""), dry_run, 0), cs, g)

\* except ApiException: record the failed attempt and return the error
api_failure(action_type, namespace, resource, failed, dry_run, sf, cs, g) ==
    limiter_record_action(action_type, namespace, resource, FALSE, failed, sf,
        Res(FALSE, action_type, failed, Plain(""), dry_run, 0), cs, g)

(***************************************************************************)
(* HealingActions: the verbs                                               *)
(***************************************************************************)
\* a gate that consults an empty log
Gate_unmetered(action_type, affected_resources) ==
    can_perform_action(<<>>, now, action_type, affected_resources)

\* a gate asked about the whole blast radius on top of the batch
Gate_padded(action_type, affected_resources) ==
    can_perform_action(action_history, now, action_type,
                       affected_resources + max_pods_per_action)

Gate(action_type, affected_resources) ==
    can_perform_action(action_history, now, action_type, affected_resources)

restart_pod(dry_run, api, sf) ==
    LET action_type == "restart_pod"
        v == Gate(action_type, 1)
        failed == Plain("Failed to restart pod")
    IN  /\ Invoke
        /\ Request(action_type, dry_run, api, 0)
        /\ api # "read"
        /\ UNCHANGED cluster
        /\ IF ~v.allowed
           THEN /\ Unused(api, sf)
                /\ deny(action_type, v.reason, dry_run, 0)
           ELSE IF dry_run
           THEN /\ Unused(api, sf)
                /\ NoRecord(Res(TRUE, action_type, Plain(""),
                                Plain("Dry run: Pod would be restarted"), TRUE, 0), <<>>, 1)
           ELSE IF api = "write"
           THEN api_failure(action_type, Namespace, PodName, failed, dry_run, sf, <<"delete_pod">>, 1)
           ELSE limiter_record_action(action_type, Namespace, PodName, TRUE,
                    Plain("Pod deleted for restart"), sf,
                    Res(TRUE, action_type, Plain(""),
                        Plain("Pod deleted, controller will recreate it"), FALSE, 0),
                    <<"delete_pod">>, 1)

\* the dry run recorded as an action
delete_failed_pods_recording_dry_run(n, bad, dry_run, api, sf) ==
    LET action_type == "delete_failed_pods"
        v == Gate(action_type, n)
        failed == Plain("Failed to delete failed pods")
        deleted == n - Cardinality(bad)
    IN  /\ Invoke
        /\ Request(action_type, dry_run, IF bad # {} THEN "batch" ELSE api, n)
        /\ api # "write"
        /\ bad \subseteq 1..n
        /\ UNCHANGED cluster
        /\ IF api = "read"
           THEN /\ bad = {} /\ n = 0
                /\ api_failure(action_type, Namespace, "multiple", failed, dry_run, sf, <<>>, 0)
           ELSE IF n = 0
           THEN /\ Unused(api, sf) /\ bad = {}
                /\ NoRecord(Res(TRUE, action_type, Plain(""), Plain("No failed pods found"),
                                dry_run, 0), <<>>, 0)
           ELSE IF ~v.allowed
           THEN /\ Unused(api, sf) /\ bad = {}
                /\ deny(action_type, v.reason, dry_run, n)
           ELSE IF dry_run
           THEN /\ api = "none" /\ bad = {}
                /\ limiter_record_action(action_type, Namespace, PodsLabel(n), TRUE,
                       Msg("Dry run: Would delete failed pods", n, 0, ""), sf,
                       Res(TRUE, action_type, Plain(""),
                           Msg("Dry run: Would delete failed pods", n, 0, ""), TRUE, n),
                       <<>>, 1)
           ELSE limiter_record_action(action_type, Namespace, PodsLabel(deleted), TRUE,
                    Msg("Deleted failed pods", deleted, 0, ""), sf,
                    Res(TRUE, action_type, Plain(""),
                        Msg("Deleted failed pods", deleted, 0, ""), FALSE, deleted),
                    [i \in 1..n |-> "delete_pod"], 1)

\* n: the failed pods the listing returns; bad: those whose delete raises
delete_failed_pods(n, bad, dry_run, api, sf) ==
    LET action_type == "delete_failed_pods"
        v == Gate(action_type, n)
        failed == Plain("Failed to delete failed pods")
        deleted == n - Cardinality(bad)
    IN  /\ Invoke
        /\ Request(action_type, dry_run, IF bad # {} THEN "batch" ELSE api, n)
        /\ api # "write"
        /\ bad \subseteq 1..n
        /\ UNCHANGED cluster
        /\ IF api = "read"
           THEN /\ bad = {} /\ n = 0   \* the listing raised: no pods were returned
                /\ api_failure(action_type, Namespace, "multiple", failed, dry_run, sf, <<>>, 0)
           ELSE IF n = 0
           THEN /\ Unused(api, sf) /\ bad = {}
                /\ NoRecord(Res(TRUE, action_type, Plain(""), Plain("No failed pods found"),
                                dry_run, 0), <<>>, 0)
           ELSE IF ~v.allowed
           THEN /\ Unused(api, sf) /\ bad = {}
                /\ deny(action_type, v.reason, dry_run, n)
           ELSE IF dry_run
           THEN /\ Unused(api, sf) /\ bad = {}
                /\ NoRecord(Res(TRUE, action_type, Plain(""),
                                Msg("Dry run: Would delete failed pods", n, 0, ""), TRUE, n),
                            <<>>, 1)
           ELSE limiter_record_action(action_type, Namespace, PodsLabel(deleted), TRUE,
                    Msg("Deleted failed pods", deleted, 0, ""), sf,
                    Res(TRUE, action_type, Plain(""),
                        Msg("Deleted failed pods", deleted, 0, ""), FALSE, deleted),
                    [i \in 1..n |-> "delete_pod"], 1)

evict_pod_from_node(dry_run, api, sf) ==
    LET action_type == "evict_pod_from_node"
        v == Gate(action_type, 1)
        failed == Plain("Failed to evict pod")
    IN  /\ Invoke
        /\ Request(action_type, dry_run, api, 0)
        /\ api # "read"
        /\ UNCHANGED cluster
        /\ IF ~v.allowed
           THEN /\ Unused(api, sf)
                /\ deny(action_type, v.reason, dry_run, 0)
           ELSE IF dry_run
           THEN /\ Unused(api, sf)
                /\ NoRecord(Res(TRUE, action_type, Plain(""),
                                Plain("Dry run: Pod would be evicted from its node"), TRUE, 0),
                            <<>>, 1)
           ELSE IF api = "write"
           THEN api_failure(action_type, Namespace, PodName, failed, dry_run, sf, <<"evict_pod">>, 1)
           ELSE limiter_record_action(action_type, Namespace, PodName, TRUE,
                    Plain("Pod evicted"), sf,
                    Res(TRUE, action_type, Plain(""),
                        Plain("Pod eviction requested successfully"), FALSE, 0),
                    <<"evict_pod">>, 1)

\* leaves every kube-system pod out, whatever include_kube_system says
Skipped_kube_system_always(pod, ignore_daemonsets, include_kube_system) ==
    \/ pod.namespace = "kube-system"
    \/ pod.mirror
    \/ ignore_daemonsets /\ pod.daemonset

\* the pod is left out of the drain
Skipped(pod, ignore_daemonsets, include_kube_system) ==
    \/ ~include_kube_system /\ pod.namespace = "kube-system"
    \/ pod.mirror
    \/ ignore_daemonsets /\ pod.daemonset

EvictablePods(pods, ignore_daemonsets, include_kube_system) ==
    SelectSeq(pods, LAMBDA pod : ~Skipped(pod, ignore_daemonsets, include_kube_system))

SkippedPods(pods, ignore_daemonsets, include_kube_system) ==
    SelectSeq(pods, LAMBDA pod : Skipped(pod, ignore_daemonsets, include_kube_system))

\* the drain with the gate in the place the other verbs give it: a denial
\* returns before the dry run is looked at
drain_node_gate_first(pods, ignore_daemonsets, include_kube_system, bad, dry_run, api, sf) ==
    LET action_type == "drain_node"
        evictable_pods == EvictablePods(pods, ignore_daemonsets, include_kube_system)
        n == Len(evictable_pods)
        v == Gate(action_type, n)
        failed == Plain("Failed to drain node")
        evicted == n - Cardinality(bad)
    IN  /\ Invoke
        /\ Request(action_type, dry_run, IF bad # {} THEN "batch" ELSE api, n)
        /\ api # "write"
        /\ bad \subseteq 1..n
        /\ UNCHANGED cluster
        /\ IF api = "read"
           THEN /\ bad = {} /\ pods = <<>>
                /\ api_failure(action_type, "-", NodeName, failed, dry_run, sf, <<>>, 0)
           ELSE IF n = 0
           THEN /\ Unused(api, sf) /\ bad = {}
                /\ NoRecord(Res(TRUE, action_type, Plain(""),
                                Plain("No evictable pods found on node"), dry_run, 0), <<>>, 0)
           ELSE IF ~v.allowed
           THEN /\ Unused(api, sf) /\ bad = {}
                /\ deny(action_type, v.reason, dry_run, n)
           ELSE IF dry_run
           THEN /\ Unused(api, sf) /\ bad = {}
                /\ NoRecord(Res(TRUE, action_type, Plain(""),
                                Msg("Dry run: Would evict pods from node", n, 0, ""), TRUE, n),
                            <<>>, 1)
           ELSE limiter_record_action(action_type, "-", NodeName, TRUE,
                    Msg("Evicted pods from node", evicted, 0, ""), sf,
                    Res(TRUE, action_type, Plain(""),
                        Msg("Evicted pods from node", evicted, 0, ""), FALSE, evicted),
                    [i \in 1..n |-> "evict_pod"], 1)

\* f"{namespace}/{name}" of each pod
PodNames(pods) == [i \in 1..Len(pods) |-> <<pods[i].namespace, pods[i].name>>]

\* every pod of the list, whatever became of its call
PodsAt_all(pods, keep) == pods

\* the pods of the list at the positions kept, in the order of the list
RECURSIVE PodsAt(_, _)
PodsAt(pods, keep) ==
    IF pods = <<>> THEN <<>>
    ELSE LET n == Len(pods)
             head == PodsAt(SubSeq(pods, 1, n - 1), keep)
         IN  IF n \in keep THEN Append(head, pods[n]) ELSE head

\* pods: the pods on the node; bad: the evictable pods whose eviction raises
drain_node(pods, ignore_daemonsets, include_kube_system, bad, dry_run, api, sf) ==
    LET action_type == "drain_node"
        evictable_pods == EvictablePods(pods, ignore_daemonsets, include_kube_system)
        skipped_pods == PodNames(SkippedPods(pods, ignore_daemonsets, include_kube_system))
        n == Len(evictable_pods)
        v == Gate(action_type, n)
        failed == Plain("Failed to drain node")
        evicted == n - Cardinality(bad)
    IN  /\ Invoke
        /\ request' = [verb |-> action_type, dry_run |-> dry_run,
                       api |-> IF bad # {} THEN "batch" ELSE api, arg |-> n,
                       pods |-> pods, ignore_daemonsets |-> ignore_daemonsets,
                       include_kube_system |-> include_kube_system]
        /\ api # "write"
        /\ bad \subseteq 1..n
        /\ UNCHANGED cluster
        /\ IF api = "read"
           THEN /\ bad = {} /\ pods = <<>>   \* the listing raised: no pods were returned
                /\ api_failure(action_type, "-", NodeName, failed, dry_run, sf, <<>>, 0)
           ELSE IF n = 0
           THEN /\ Unused(api, sf) /\ bad = {}
                /\ NoRecord([Res(TRUE, action_type, Plain(""),
                                 Plain("No evictable pods found on node"), dry_run, 0)
                               EXCEPT !.skipped_pods = skipped_pods], <<>>, 0)
           ELSE IF dry_run
           THEN /\ Unused(api, sf) /\ bad = {}
                /\ NoRecord([Res(TRUE, action_type, Plain(""),
                                 Msg("Dry run: Would evict pods from node", n, 0, ""), TRUE, n)
                               EXCEPT !.pods = PodNames(evictable_pods),
                                      !.skipped_pods = skipped_pods,
                                      !.would_be_blocked = ~v.allowed,
                                      !.block_reason =
                                          IF ~v.allowed THEN v.reason ELSE Plain("")],
                            <<>>, 1)
           ELSE IF ~v.allowed
           THEN /\ Unused(api, sf) /\ bad = {}
                /\ deny(action_type, v.reason, dry_run, n)
           ELSE limiter_record_action(action_type, "-", NodeName, TRUE,
                    Msg("Evicted pods from node", evicted, 0, ""), sf,
                    [Res(TRUE, action_type, Plain(""),
                         Msg("Evicted pods from node", evicted, 0, ""), FALSE, evicted)
                       EXCEPT !.evicted_pods = PodNames(PodsAt(evictable_pods, (1..n) \ bad)),
                              !.failed_evictions = PodNames(PodsAt(evictable_pods, bad)),
                              !.skipped_pods = skipped_pods],
                    [i \in 1..n |-> "evict_pod"], 1)

\* the gate asked about the target rather than about the change
scale_deployment_gating_target(replicas, dry_run, api, sf) ==
    LET action_type == "scale_deployment"
        current_replicas == cluster.replicas
        affected_resources == replicas
        v == Gate(action_type, affected_resources)
        failed == Plain("Failed to scale deployment")
    IN  /\ Invoke \/ RetryStorm(replicas, dry_run, api, sf)
        /\ Request(action_type, dry_run, api, replicas)
        /\ IF api = "read"
           THEN /\ replicas = 1   \* the read raised: the target is never compared
                /\ UNCHANGED cluster
                /\ api_failure(action_type, Namespace, DeploymentName, failed, dry_run, sf, <<>>, 0)
           ELSE IF current_replicas = replicas
           THEN /\ Unused(api, sf)
                /\ UNCHANGED cluster
                /\ NoRecord(Res(TRUE, action_type, Plain(""),
                                Msg("Deployment already at replicas", replicas, 0, ""),
                                dry_run, 0), <<>>, 0)
           ELSE IF ~v.allowed
           THEN /\ Unused(api, sf)
                /\ UNCHANGED cluster
                /\ deny(action_type, v.reason, dry_run, 0)
           ELSE IF dry_run
           THEN /\ Unused(api, sf)
                /\ UNCHANGED cluster
                /\ NoRecord(Res(TRUE, action_type, Plain(""),
                                Msg("Dry run: Would scale", current_replicas, replicas, ""),
                                TRUE, 0), <<>>, 1)
           ELSE IF api = "write"
           THEN /\ UNCHANGED cluster
                /\ api_failure(action_type, Namespace, DeploymentName, failed, dry_run, sf, <<"patch_deployment">>, 1)
           ELSE /\ cluster' = [cluster EXCEPT !.replicas = replicas]
                /\ limiter_record_action(action_type, Namespace, DeploymentName, TRUE,
                       Msg("Scaled", current_replicas, replicas, ""), sf,
                       Res(TRUE, action_type, Plain(""),
                           Msg("Scaled", current_replicas, replicas, ""), FALSE, 0),
                       <<"patch_deployment">>, 1)

scale_deployment(replicas, dry_run, api, sf) ==
    LET action_type == "scale_deployment"
        current_replicas == cluster.replicas
        affected_resources == Abs(replicas - current_replicas)
        v == Gate(action_type, affected_resources)
        failed == Plain("Failed to scale deployment")
    IN  /\ Invoke \/ RetryStorm(replicas, dry_run, api, sf)
        /\ Request(action_type, dry_run, api, replicas)
        /\ IF api = "read"
           THEN /\ replicas = 1   \* the read raised: the target is never compared
                /\ UNCHANGED cluster
                /\ api_failure(action_type, Namespace, DeploymentName, failed, dry_run, sf, <<>>, 0)
           ELSE IF current_replicas = replicas
           THEN /\ Unused(api, sf)
                /\ UNCHANGED cluster
                /\ NoRecord(Res(TRUE, action_type, Plain(""),
                                Msg("Deployment already at replicas", replicas, 0, ""),
                                dry_run, 0), <<>>, 0)
           ELSE IF ~v.allowed
           THEN /\ Unused(api, sf)
                /\ UNCHANGED cluster
                /\ deny(action_type, v.reason, dry_run, 0)
           ELSE IF dry_run
           THEN /\ Unused(api, sf)
                /\ UNCHANGED cluster
                /\ NoRecord(Res(TRUE, action_type, Plain(""),
                                Msg("Dry run: Would scale", current_replicas, replicas, ""),
                                TRUE, 0), <<>>, 1)
           ELSE IF api = "write"
           THEN /\ UNCHANGED cluster
                /\ api_failure(action_type, Namespace, DeploymentName, failed, dry_run, sf, <<"patch_deployment">>, 1)
           ELSE /\ cluster' = [cluster EXCEPT !.replicas = replicas]
                /\ limiter_record_action(action_type, Namespace, DeploymentName, TRUE,
                       Msg("Scaled", current_replicas, replicas, ""), sf,
                       Res(TRUE, action_type, Plain(""),
                           Msg("Scaled", current_replicas, replicas, ""), FALSE, 0),
                       <<"patch_deployment">>, 1)

\* revision: NoId stands for None ("previous revision")
rollback_deployment(revision, dry_run, api, sf) ==
    LET action_type == "rollback_deployment"
        v == Gate(action_type, 1)
        failed == Plain("Failed to rollback deployment")
        revision_msg == IF revision # NoId THEN Msg("revision", revision, 0, "")
                        ELSE Plain("previous revision")
    IN  /\ Invoke
        /\ Request(action_type, dry_run, api, revision)
        /\ IF ~v.allowed
           THEN /\ Unused(api, sf)
                /\ UNCHANGED cluster
                /\ deny(action_type, v.reason, dry_run, 0)
           ELSE IF dry_run
           THEN /\ Unused(api, sf)
                /\ UNCHANGED cluster
                /\ NoRecord(Res(TRUE, action_type, Plain(""),
                                [revision_msg EXCEPT !.type = "Dry run: Would rollback to"],
                                TRUE, 0), <<>>, 1)
           ELSE IF api = "read"
           THEN /\ UNCHANGED cluster
                /\ api_failure(action_type, Namespace, DeploymentName, failed, dry_run, sf, <<>>, 1)
           ELSE IF api = "write"
           THEN /\ UNCHANGED cluster
                /\ api_failure(action_type, Namespace, DeploymentName, failed, dry_run, sf, <<"patch_deployment">>, 1)
           ELSE \* annotations['deployment.kubernetes.io/revision'] = str(revision or 0)
                /\ cluster' = [cluster EXCEPT !.revision = revision]
                /\ limiter_record_action(action_type, Namespace, DeploymentName, TRUE,
                       [revision_msg EXCEPT !.type = "Rolled back to"], sf,
                       Res(TRUE, action_type, Plain(""),
                           [revision_msg EXCEPT !.type = "Rolled back to"], FALSE, 0),
                       <<"patch_deployment">>, 1)

cordon_node(dry_run, api, sf) ==
    LET action_type == "cordon_node"
        v == Gate(action_type, 1)
        failed == Plain("Failed to cordon node")
    IN  /\ Invoke
        /\ Request(action_type, dry_run, api, 0)
        /\ IF ~v.allowed
           THEN /\ Unused(api, sf)
                /\ UNCHANGED cluster
                /\ deny(action_type, v.reason, dry_run, 0)
           ELSE IF dry_run
           THEN /\ Unused(api, sf)
                /\ UNCHANGED cluster
                /\ NoRecord(Res(TRUE, action_type, Plain(""),
                                Plain("Dry run: Would mark node as unschedulable"), TRUE, 0),
                            <<>>, 1)
           ELSE IF api = "read"
           THEN /\ UNCHANGED cluster
                /\ api_failure(action_type, "-", NodeName, failed, dry_run, sf, <<>>, 1)
           ELSE IF cluster.unschedulable
           THEN /\ Unused(api, sf)
                /\ UNCHANGED cluster
                /\ NoRecord(Res(TRUE, action_type, Plain(""),
                                Plain("Node is already cordoned"), FALSE, 0), <<>>, 1)
           ELSE IF api = "write"
           THEN /\ UNCHANGED cluster
                /\ api_failure(action_type, "-", NodeName, failed, dry_run, sf, <<"patch_node">>, 1)
           ELSE /\ cluster' = [cluster EXCEPT !.unschedulable = TRUE]
                /\ limiter_record_action(action_type, "-", NodeName, TRUE,
                       Plain("Node cordoned"), sf,
                       Res(TRUE, action_type, Plain(""),
                           Plain("Node marked as unschedulable"), FALSE, 0),
                       <<"patch_node">>, 1)

\* the uncordon put behind the gate like the cordon
uncordon_node_gated(dry_run, api, sf) ==
    LET action_type == "uncordon_node"
        v == Gate(action_type, 1)
        failed == Plain("Failed to uncordon node")
    IN  /\ Invoke
        /\ Request(action_type, dry_run, api, 0)
        /\ IF ~v.allowed
           THEN /\ Unused(api, sf)
                /\ UNCHANGED cluster
                /\ deny(action_type, v.reason, dry_run, 0)
           ELSE IF dry_run
           THEN /\ Unused(api, sf)
                /\ UNCHANGED cluster
                /\ NoRecord(Res(TRUE, action_type, Plain(""),
                                Plain("Dry run: Would mark node as schedulable"), TRUE, 0),
                            <<>>, 1)
           ELSE IF api = "read"
           THEN /\ UNCHANGED cluster
                /\ api_failure(action_type, "-", NodeName, failed, dry_run, sf, <<>>, 1)
           ELSE IF ~cluster.unschedulable
           THEN /\ Unused(api, sf)
                /\ UNCHANGED cluster
                /\ NoRecord(Res(TRUE, action_type, Plain(""),
                                Plain("Node is already schedulable"), FALSE, 0), <<>>, 1)
           ELSE IF api = "write"
           THEN /\ UNCHANGED cluster
                /\ api_failure(action_type, "-", NodeName, failed, dry_run, sf, <<"patch_node">>, 1)
           ELSE /\ cluster' = [cluster EXCEPT !.unschedulable = FALSE]
                /\ limiter_record_action(action_type, "-", NodeName, TRUE,
                       Plain("Node uncordoned"), sf,
                       Res(TRUE, action_type, Plain(""),
                           Plain("Node marked as schedulable"), FALSE, 0),
                       <<"patch_node">>, 1)

uncordon_node(dry_run, api, sf) ==
    LET action_type == "uncordon_node"
        failed == Plain("Failed to uncordon node")
    IN  /\ Invoke
        /\ Request(action_type, dry_run, api, 0)
        /\ IF dry_run
           THEN /\ Unused(api, sf)
                /\ UNCHANGED cluster
                /\ NoRecord(Res(TRUE, action_type, Plain(""),
                                Plain("Dry run: Would mark node as schedulable"), TRUE, 0),
                            <<>>, 0)
           ELSE IF api = "read"
           THEN /\ UNCHANGED cluster
                /\ api_failure(action_type, "-", NodeName, failed, dry_run, sf, <<>>, 0)
           ELSE IF ~cluster.unschedulable
           THEN /\ Unused(api, sf)
                /\ UNCHANGED cluster
                /\ NoRecord(Res(TRUE, action_type, Plain(""),
                                Plain("Node is already schedulable"), FALSE, 0), <<>>, 0)
           ELSE IF api = "write"
           THEN /\ UNCHANGED cluster
                /\ api_failure(action_type, "-", NodeName, failed, dry_run, sf, <<"patch_node">>, 0)
           ELSE /\ cluster' = [cluster EXCEPT !.unschedulable = FALSE]
                /\ limiter_record_action(action_type, "-", NodeName, TRUE,
                       Plain("Node uncordoned"), sf,
                       Res(TRUE, action_type, Plain(""),
                           Plain("Node marked as schedulable"), FALSE, 0),
                       <<"patch_node">>, 0)

(***************************************************************************)
(* The clock                                                               *)
(***************************************************************************)
\* Time passes before an invocation, in one advance (what follows the last
\* invocation of a behaviour is not explored).
Tick(d) ==
    /\ StormSettled
    /\ store_faults = 0
    /\ ops < MaxOps
    /\ ticks <= ops
    /\ ticks < MaxTicks
    /\ ticks' = ticks + 1
    /\ now' = now + d
    /\ UNCHANGED <<healing_vars, problem_vars, idle_vars>>

(***************************************************************************)
(* The remediation executor with its gate and store                        *)
(***************************************************************************)
Init ==
    /\ now = 0
    /\ action_history = <<>>
    /\ healing_actions = <<>>
    /\ agent_activity = <<>>
    /\ problems = <<>>
    /\ tie_break = "lowest_id"
    /\ cluster \in [unschedulable : BOOLEAN, replicas : {1}, revision : {1}]
    /\ request = [verb |-> "", dry_run |-> FALSE, api |-> "none", arg |-> 0]
    /\ result = NoResult
    /\ calls = <<>>
    /\ gated = 0
    /\ problem_calls = <<>>
    /\ threads = <<>>
    /\ current_problem_id = NoId
    /\ CURRENT_PROBLEM_ID = Unset
    /\ http = NoRequest
    /\ tool_invocations = <<>>
    /\ attempt = 0
    /\ ops = 0 /\ ticks = 0 /\ store_faults = 0 /\ pops = 0

RestartPod ==
    \E dry_run \in BOOLEAN, api \in {"none", "write"}, sf \in StoreOutcomes :
        restart_pod(dry_run, api, sf)

\* the pods of a batch of n whose call raises: any of them (a batch larger
\* than the blast radius is never started)
BadSets(n) == IF n <= max_pods_per_action THEN SUBSET (1..n) ELSE {{}}

DeleteFailedPods ==
    \E n \in FailedPodCounts, dry_run \in BOOLEAN,
       api \in {"none", "read"}, sf \in StoreOutcomes :
        \E bad \in BadSets(n) : delete_failed_pods(n, bad, dry_run, api, sf)

EvictPodFromNode ==
    \E dry_run \in BOOLEAN, api \in {"none", "write"}, sf \in StoreOutcomes :
        evict_pod_from_node(dry_run, api, sf)

DrainNode ==
    \E pods \in NodePodLists, flags \in BOOLEAN \X BOOLEAN,
       dry_run \in BOOLEAN, api \in {"none", "read"}, sf \in StoreOutcomes :
        \E bad \in BadSets(Len(EvictablePods(pods, flags[1], flags[2]))) :
            drain_node(pods, flags[1], flags[2], bad, dry_run, api, sf)

ScaleDeployment ==
    \E replicas \in ReplicaTargets, dry_run \in BOOLEAN,
       api \in ApiOutcomes, sf \in StoreOutcomes :
        scale_deployment(replicas, dry_run, api, sf)

RollbackDeployment ==
    \E revision \in Revisions, dry_run \in BOOLEAN,
       api \in ApiOutcomes, sf \in StoreOutcomes :
        rollback_deployment(revision, dry_run, api, sf)

CordonNode ==
    \E dry_run \in BOOLEAN, api \in ApiOutcomes, sf \in StoreOutcomes :
        cordon_node(dry_run, api, sf)

UncordonNode ==
    \E dry_run \in BOOLEAN, api \in ApiOutcomes, sf \in StoreOutcomes :
        uncordon_node(dry_run, api, sf)

Verb ==
    /\ \/ RestartPod
       \/ DeleteFailedPods
       \/ EvictPodFromNode
       \/ DrainNode
       \/ ScaleDeployment
       \/ RollbackDeployment
       \/ CordonNode
       \/ UncordonNode
    /\ UNCHANGED <<now, ticks, problem_vars, idle_vars>>

Next ==
    \/ Verb
    \/ \E d \in TickSteps : Tick(d)

Spec == Init /\ [][Next]_vars

\* a limiter that reads the log back from healing_actions when it is built
Restart_reloading(d) ==
    /\ StormSettled
    /\ store_faults = 0
    /\ ops = 0
    /\ ticks < MaxTicks
    /\ ticks' = ticks + 1
    /\ now' = now + d
    /\ action_history' =
          [i \in DOMAIN healing_actions |->
              [timestamp   |-> healing_actions[i].timestamp,
               action_type |-> healing_actions[i].action_type,
               namespace   |-> healing_actions[i].namespace,
               resource    |-> healing_actions[i].resource,
               success     |-> healing_actions[i].success,
               details     |-> healing_actions[i].details]]
    /\ UNCHANGED <<healing_actions, agent_activity, cluster, request, result, calls,
                   gated, ops, store_faults, problem_vars, idle_vars>>

\* The process is restarted, d seconds going by: HealingActionLimiter is
\* built anew with self.action_history = [], the store keeps its rows.
Restart(d) ==
    /\ StormSettled
    /\ store_faults = 0
    /\ ops = 0
    /\ ticks < MaxTicks
    /\ ticks' = ticks + 1
    /\ now' = now + d
    /\ action_history' = <<>>
    /\ UNCHANGED <<healing_actions, agent_activity, cluster, request, result, calls,
                   gated, ops, store_faults, problem_vars, idle_vars>>

SpecRestart ==
    Init /\ [][\/ Verb
               \/ \E d \in TickSteps : Tick(d)
               \/ \E d \in {0, 1} : Restart(d)]_vars

\* The same executor with a day between the storm and the invocation: one
\* second short of 24 hours, or 24 hours to the second.
SpecDay == Init /\ [][Verb \/ \E d \in {OneDay - 1, OneDay} : Tick(d)]_vars

(***************************************************************************)
(* ActionHistoryStore: the problems table.  Rows are never deleted and ids *)
(* are assigned in sequence, so the row with id i is problems[i].          *)
(***************************************************************************)
Fingerprints == {"GET:/targets?", "POST:/healing/restart-pod?namespace=default&pod_name=web-0"}
ProblemTitle == "GET /targets"
Statuses == {"open", "resolved"}
TieBreaks == {"lowest_id", "highest_id"}

\* keep the last three calls
LastCalls(cs) == IF Len(cs) <= 3 THEN cs ELSE SubSeq(cs, Len(cs) - 2, Len(cs))

\* one more call on the problems table, with what it returned
ProblemCall(op, fingerprint, status, id, created, updated) ==
    /\ pops < MaxProblemOps
    /\ pops' = pops + 1
    /\ problem_calls' = LastCalls(Append(problem_calls,
           [op |-> op, fingerprint |-> fingerprint, status |-> status,
            id |-> id, created |-> created, updated |-> updated]))

\* INSERT INTO problems ...; the id of the new row
InsertProblem(rows, t, title, status, fingerprint) ==
    Append(rows, [id           |-> Len(rows) + 1,
                  created_at   |-> t,
                  title        |-> title,
                  status       |-> status,
                  summary      |-> "",
                  fingerprint  |-> fingerprint,
                  last_updated |-> t])

\* WHERE fingerprint = ? AND status = 'open'
OpenProblems(rows, fingerprint) ==
    {i \in DOMAIN rows : rows[i].fingerprint = fingerprint /\ rows[i].status = "open"}

\* the lookup blind to the status
find_open_problem_any_status(rows, fingerprint, tb) ==
    LET match  == {i \in DOMAIN rows : rows[i].fingerprint = fingerprint}
        latest == {i \in match : \A j \in match : rows[j].last_updated <= rows[i].last_updated}
    IN  IF match = {} THEN NoId
        ELSE IF tb = "lowest_id" THEN CHOOSE i \in latest : \A j \in latest : i <= j
        ELSE CHOOSE i \in latest : \A j \in latest : j <= i

\* ORDER BY last_updated DESC LIMIT 1; among rows updated at the same instant
\* the engine returns one of its choosing, the same one for the same query
find_open_problem(rows, fingerprint, tb) ==
    LET match  == OpenProblems(rows, fingerprint)
        latest == {i \in match : \A j \in match : rows[j].last_updated <= rows[i].last_updated}
    IN  IF match = {} THEN NoId
        ELSE IF tb = "lowest_id" THEN CHOOSE i \in latest : \A j \in latest : i <= j
        ELSE CHOOSE i \in latest : \A j \in latest : j <= i

create_problem(title, status, fingerprint) ==
    /\ Len(problems) < MaxProblems
    /\ problems' = InsertProblem(problems, now, title, status, fingerprint)
    /\ ProblemCall("create_problem", fingerprint, status, Len(problems) + 1, TRUE, FALSE)

get_or_create_problem(title, fingerprint) ==
    LET existing == find_open_problem(problems, fingerprint, tie_break)
    IN  IF existing # NoId
        THEN /\ UNCHANGED problems
             /\ ProblemCall("get_or_create_problem", fingerprint, "open", existing, FALSE, FALSE)
        ELSE /\ Len(problems) < MaxProblems
             /\ problems' = InsertProblem(problems, now, title, "open", fingerprint)
             /\ ProblemCall("get_or_create_problem", fingerprint, "open",
                            Len(problems) + 1, TRUE, FALSE)

\* UPDATE problems SET status, summary, last_updated WHERE id = ?
update_problem_status(problem_id, status) ==
    /\ problems' = [i \in DOMAIN problems |->
                      IF problems[i].id = problem_id
                      THEN [problems[i] EXCEPT !.status = status, !.summary = "",
                                               !.last_updated = now]
                      ELSE problems[i]]
    \* return cursor.rowcount > 0
    /\ ProblemCall("update_problem_status", "", status, problem_id, FALSE,
                   RowCount(problems, problem_id) > 0)

CreateProblem ==
    /\ \E fingerprint \in Fingerprints :
           create_problem(ProblemTitle, "open", fingerprint)
    /\ UNCHANGED <<now, ticks, tie_break, healing_vars, idle_vars>>

GetOrCreateProblem ==
    /\ \E fingerprint \in Fingerprints : get_or_create_problem(ProblemTitle, fingerprint)
    /\ UNCHANGED <<now, ticks, tie_break, healing_vars, idle_vars>>

UpdateProblemStatus ==
    /\ \E problem_id \in 1..MaxProblems, status \in Statuses :
           update_problem_status(problem_id, status)
    /\ UNCHANGED <<now, ticks, tie_break, healing_vars, idle_vars>>

\* time passes between two calls
TickProblems ==
    /\ pops < MaxProblemOps
    /\ ticks < MaxTicks
    /\ ticks' = ticks + 1
    /\ now' = now + 1
    /\ UNCHANGED <<healing_vars, problem_vars, idle_vars>>

InitProblems ==
    /\ now = 0
    /\ action_history = <<>>
    /\ healing_actions = <<>>
    /\ agent_activity = <<>>
    /\ problems = <<>>
    /\ tie_break \in TieBreaks
    /\ cluster = [unschedulable |-> FALSE, replicas |-> 1, revision |-> 1]
    /\ request = [verb |-> "", dry_run |-> FALSE, api |-> "none", arg |-> 0]
    /\ result = NoResult
    /\ calls = <<>>
    /\ gated = 0
    /\ problem_calls = <<>>
    /\ threads = <<>>
    /\ current_problem_id = NoId
    /\ CURRENT_PROBLEM_ID = Unset
    /\ http = NoRequest
    /\ tool_invocations = <<>>
    /\ attempt = 0
    /\ ops = 0 /\ ticks = 0 /\ store_faults = 0 /\ pops = 0

NextProblems ==
    \/ CreateProblem
    \/ GetOrCreateProblem
    \/ UpdateProblemStatus
    \/ TickProblems

SpecProblems == InitProblems /\ [][NextProblems]_vars

(***************************************************************************)
(* Requests served at the same time.  The verbs run in the worker threads  *)
(* of the HTTP server and take no lock: between the gate's check, the      *)
(* cluster call and record_action of one request, another request may run. *)
(* get_or_create_problem looks up and inserts in two transactions.         *)
(***************************************************************************)
Threads == {1, 2}

\* the verbs raced, with their mutating call and the details they record
RaceVerbs == {"restart_pod", "evict_pod_from_node"}
RaceCall(action_type) ==
    IF action_type = "restart_pod" THEN "delete_pod" ELSE "evict_pod"
RaceDetails(action_type) ==
    IF action_type = "restart_pod" THEN Plain("Pod deleted for restart")
    ELSE Plain("Pod evicted")

\* a request that has not started
Pending(op, arg) ==
    [pc |-> "start", op |-> op, arg |-> arg, allowed |-> FALSE,
     reason |-> Plain(""), called |-> "", returned |-> NoId, created |-> FALSE]

PendingRequests ==
    {Pending(action_type, "") : action_type \in RaceVerbs}
        \cup {Pending("get_or_create_problem", fingerprint) : fingerprint \in Fingerprints}

\* the log, the table of actions and the table of activity after n scale
\* requests whose read failed at time 0
RECURSIVE StormHistory(_)
StormHistory(n) ==
    IF n = 0 THEN <<>>
    ELSE LimiterAppend(StormHistory(n - 1), 0, "scale_deployment", Namespace,
                       DeploymentName, FALSE, Plain("Failed to scale deployment"))

RECURSIVE StormActions(_)
StormActions(n) ==
    IF n = 0 THEN <<>>
    ELSE store_record_action(StormActions(n - 1), 0, "scale_deployment", Namespace,
                             DeploymentName, FALSE, Plain("Failed to scale deployment"), NoId)

RECURSIVE StormActivity(_)
StormActivity(n) ==
    IF n = 0 THEN <<>>
    ELSE store_record_agent_activity(StormActivity(n - 1), 0, "healing_action",
             <<"scale_deployment", Namespace, DeploymentName>>,
             <<"scale_deployment", "executed">>, "failed",
             Plain("Failed to scale deployment"), NoId)

Step(r, t) == threads' = [threads EXCEPT ![r] = t]

\* allowed, reason = self.limiter.can_perform_action(action_type, 1)
Admit(r) ==
    LET t == threads[r]
        v == Gate(t.op, 1)
    IN  /\ t.pc = "start" /\ t.op \in RaceVerbs
        /\ Step(r, [t EXCEPT !.pc = IF v.allowed THEN "admitted" ELSE "done",
                             !.allowed = v.allowed, !.reason = v.reason])
        /\ UNCHANGED <<action_history, healing_actions, agent_activity, problems>>

\* the request asks the gate once more before its cluster call
Execute_rechecking(r) ==
    LET t == threads[r]
        v == Gate(t.op, 1)
    IN  /\ t.pc = "admitted"
        /\ Step(r, IF v.allowed THEN [t EXCEPT !.pc = "executed", !.called = RaceCall(t.op)]
                   ELSE [t EXCEPT !.pc = "done", !.allowed = FALSE, !.reason = v.reason])
        /\ UNCHANGED <<action_history, healing_actions, agent_activity, problems>>

\* delete_namespaced_pod / create_namespaced_pod_eviction
Execute(r) ==
    LET t == threads[r]
    IN  /\ t.pc = "admitted"
        /\ Step(r, [t EXCEPT !.pc = "executed", !.called = RaceCall(t.op)])
        /\ UNCHANGED <<action_history, healing_actions, agent_activity, problems>>

\* action_id = self.limiter.record_action(action_type, namespace, pod_name, True, ...)
Record(r) ==
    LET t == threads[r]
    IN  /\ t.pc = "executed"
        /\ action_history' = LimiterAppend(action_history, now, t.op, Namespace, PodName,
                                           TRUE, RaceDetails(t.op))
        /\ healing_actions' = store_record_action(healing_actions, now, t.op, Namespace,
                                                  PodName, TRUE, RaceDetails(t.op), NoId)
        /\ agent_activity' = store_record_agent_activity(agent_activity, now,
                                 "healing_action", <<t.op, Namespace, PodName>>,
                                 <<t.op, "executed">>, "success", RaceDetails(t.op), NoId)
        /\ Step(r, [t EXCEPT !.pc = "done", !.returned = Len(healing_actions) + 1])
        /\ UNCHANGED problems

\* existing = self._find_open_problem(fingerprint)
FindOpen(r) ==
    LET t == threads[r]
        existing == find_open_problem(problems, t.arg, tie_break)
    IN  /\ t.pc = "start" /\ t.op = "get_or_create_problem"
        /\ Step(r, IF existing # NoId THEN [t EXCEPT !.pc = "done", !.returned = existing]
                   ELSE [t EXCEPT !.pc = "missing"])
        /\ UNCHANGED <<action_history, healing_actions, agent_activity, problems>>

\* the insert looks the fingerprint up once more and gives way to an open row
CreateMissing_rechecking(r) ==
    LET t == threads[r]
        existing == find_open_problem(problems, t.arg, tie_break)
    IN  /\ t.pc = "missing"
        /\ IF existing # NoId
           THEN /\ UNCHANGED problems
                /\ Step(r, [t EXCEPT !.pc = "done", !.returned = existing])
           ELSE /\ problems' = InsertProblem(problems, now, ProblemTitle, "open", t.arg)
                /\ Step(r, [t EXCEPT !.pc = "done", !.returned = Len(problems) + 1,
                                     !.created = TRUE])
        /\ UNCHANGED <<action_history, healing_actions, agent_activity>>

\* return self.create_problem(title=title, ..., fingerprint=fingerprint)
CreateMissing(r) ==
    LET t == threads[r]
    IN  /\ t.pc = "missing"
        /\ problems' = InsertProblem(problems, now, ProblemTitle, "open", t.arg)
        /\ Step(r, [t EXCEPT !.pc = "done", !.returned = Len(problems) + 1,
                             !.created = TRUE])
        /\ UNCHANGED <<action_history, healing_actions, agent_activity>>

race_frame ==
    <<now, tie_break, cluster, request, result, calls, gated, problem_calls,
      current_problem_id, CURRENT_PROBLEM_ID, http, tool_invocations, attempt,
      ops, ticks, store_faults, pops>>

\* two requests arrive; the log is empty or one entry short of the hourly limit
InitRace ==
    /\ now = 0
    /\ current_problem_id = NoId
    /\ CURRENT_PROBLEM_ID = Unset
    /\ \E n \in {0, max_actions_per_hour - 1} :
          /\ action_history = StormHistory(n)
          /\ healing_actions = StormActions(n)
          /\ agent_activity = StormActivity(n)
    /\ problems = <<>>
    /\ tie_break \in TieBreaks
    /\ cluster = [unschedulable |-> FALSE, replicas |-> 1, revision |-> 1]
    /\ request = [verb |-> "", dry_run |-> FALSE, api |-> "none", arg |-> 0]
    /\ result = NoResult
    /\ calls = <<>>
    /\ gated = 0
    /\ problem_calls = <<>>
    /\ threads \in [Threads -> PendingRequests]
    /\ http = NoRequest
    /\ tool_invocations = <<>>
    /\ attempt = 0
    /\ ops = 0 /\ ticks = 0 /\ store_faults = 0 /\ pops = 0

NextRace ==
    \/ \E r \in Threads : Admit(r) /\ UNCHANGED race_frame
    \/ \E r \in Threads : Execute(r) /\ UNCHANGED race_frame
    \/ \E r \in Threads : Record(r) /\ UNCHANGED race_frame
    \/ \E r \in Threads : FindOpen(r) /\ UNCHANGED race_frame
    \/ \E r \in Threads : CreateMissing(r) /\ UNCHANGED race_frame

SpecRace == InitRace /\ [][NextRace]_vars

(***************************************************************************)
(* The problem id of a write: POST /learning/agent-activity with the       *)
(* problem id of its body, under every request context and environment.    *)
(* (NoId stands for None; the ids drawn are all different from 0.)         *)
(***************************************************************************)
ExplicitIds == {NoId, 1, 2}
ContextValues == {NoId, 3, 4, 5}
EnvValues ==
    {Unset, Env(<<>>), Env(<<"7">>), Env(<<" ", "4", "2", " ">>),
     Env(<<"a", "b", "c">>), Env(<<"-", "3">>), Env(<<"7", ".", "5">>)}

record_agent_activity(problem_id) ==
    /\ ops < MaxOps
    /\ ops' = ops + 1
    /\ agent_activity' =
          store_record_agent_activity(agent_activity, now, "manual_note", <<>>, <<>>,
                                      "success", Plain(""), problem_id)
    /\ request' = [verb |-> "record_agent_activity", dry_run |-> FALSE,
                   api |-> "none", arg |-> problem_id]
    /\ UNCHANGED <<now, action_history, healing_actions, cluster, result, calls, gated,
                   store_faults, ticks, problem_vars, idle_vars>>

InitResolve ==
    /\ now = 0
    /\ action_history = <<>>
    /\ healing_actions = <<>>
    /\ agent_activity = <<>>
    /\ problems = <<>>
    /\ tie_break = "lowest_id"
    /\ cluster = [unschedulable |-> FALSE, replicas |-> 1, revision |-> 1]
    /\ request = [verb |-> "", dry_run |-> FALSE, api |-> "none", arg |-> 0]
    /\ result = NoResult
    /\ calls = <<>>
    /\ gated = 0
    /\ problem_calls = <<>>
    /\ threads = <<>>
    /\ current_problem_id \in ContextValues
    /\ CURRENT_PROBLEM_ID \in EnvValues
    /\ http = NoRequest
    /\ tool_invocations = <<>>
    /\ attempt = 0
    /\ ops = 0 /\ ticks = 0 /\ store_faults = 0 /\ pops = 0

NextResolve == \E problem_id \in ExplicitIds : record_agent_activity(problem_id)

SpecResolve == InitResolve /\ [][NextResolve]_vars

(***************************************************************************)
(* ActionHistoryStore: the calls on healing_actions, next to those on      *)
(* problems.  request and result hold the last call and what it returned.  *)
(***************************************************************************)
StoreResult(op, ok, returned, listing) ==
    [op |-> op, ok |-> ok, returned |-> returned, listing |-> listing]

StoreRequest(verb, arg) ==
    request' = [verb |-> verb, dry_run |-> FALSE, api |-> "none", arg |-> arg]

\* one more call on the store
StoreCall ==
    /\ pops < MaxStoreOps
    /\ pops' = pops + 1

\* the update applied to every row
update_outcome_all_rows(rows, action_id, outcome, resolution_time_seconds, notes) ==
    [i \in DOMAIN rows |->
        [rows[i] EXCEPT !.outcome = outcome,
                        !.resolution_time_seconds = resolution_time_seconds,
                        !.notes = notes]]

\* UPDATE healing_actions SET outcome, resolution_time_seconds, notes WHERE id = ?
update_outcome(rows, action_id, outcome, resolution_time_seconds, notes) ==
    [i \in DOMAIN rows |->
        IF rows[i].id = action_id
        THEN [rows[i] EXCEPT !.outcome = outcome,
                             !.resolution_time_seconds = resolution_time_seconds,
                             !.notes = notes]
        ELSE rows[i]]

\* ORDER BY timestamp ASC (rows with equal timestamps in the order of their ids)
RECURSIVE InsertByTimestamp(_, _)
InsertByTimestamp(sorted, row) ==
    IF sorted = <<>> THEN <<row>>
    ELSE IF sorted[Len(sorted)].timestamp <= row.timestamp THEN Append(sorted, row)
    ELSE Append(InsertByTimestamp(SubSeq(sorted, 1, Len(sorted) - 1), row),
                sorted[Len(sorted)])

RECURSIVE OrderByTimestamp(_)
OrderByTimestamp(rows) ==
    IF rows = <<>> THEN <<>>
    ELSE InsertByTimestamp(OrderByTimestamp(SubSeq(rows, 1, Len(rows) - 1)),
                           rows[Len(rows)])

\* _row_to_dict
row_to_dict(row) ==
    [id |-> row.id, timestamp |-> row.timestamp, action_type |-> row.action_type,
     namespace |-> row.namespace, resource |-> row.resource,
     success |-> (row.success = TRUE), details |-> row.details,
     outcome |-> row.outcome,
     resolution_time_seconds |-> row.resolution_time_seconds,
     notes |-> row.notes, problem_id |-> row.problem_id]

\* SELECT ... FROM healing_actions WHERE timestamp >= cutoff ORDER BY timestamp ASC
list_actions(rows, t, hours) ==
    LET cutoff == t - hours * OneHour
        selected == OrderByTimestamp(SelectSeq(rows, LAMBDA row : row.timestamp >= cutoff))
    IN  [i \in DOMAIN selected |-> row_to_dict(selected[i])]

store_frame ==
    <<action_history, agent_activity, cluster, calls, gated, ops, store_faults,
      problems, tie_break, problem_calls, idle_vars>>

RecordAction ==
    \E action_type \in {"restart_pod"}, success \in BOOLEAN, problem_id \in {NoId, 1} :
        /\ StoreCall
        /\ Len(healing_actions) < MaxProblems
        /\ healing_actions' =
              store_record_action(healing_actions, now, action_type, Namespace, PodName,
                                  success, Plain("Pod deleted for restart"), problem_id)
        /\ StoreRequest("record_action",
                        [action_type |-> action_type, success |-> success,
                         problem_id |-> problem_id, at |-> now])
        /\ result' = StoreResult("record_action", TRUE, Len(healing_actions) + 1, <<>>)
        /\ UNCHANGED <<now, ticks, store_frame>>

UpdateOutcome ==
    \E action_id \in 1..MaxProblems, resolution_time_seconds \in {30} :
        /\ StoreCall
        /\ healing_actions' =
              update_outcome(healing_actions, action_id, "resolved",
                             resolution_time_seconds, Plain("fixed by restart"))
        /\ StoreRequest("update_outcome",
                        [action_id |-> action_id, outcome |-> "resolved",
                         resolution_time_seconds |-> resolution_time_seconds,
                         notes |-> Plain("fixed by restart")])
        /\ result' = StoreResult("update_outcome", RowCount(healing_actions, action_id) > 0,
                                 action_id, <<>>)
        /\ UNCHANGED <<now, ticks, store_frame>>

ListActions ==
    \E hours \in {0, 1} :
        /\ StoreCall
        /\ StoreRequest("list_actions", [hours |-> hours])
        /\ result' = StoreResult("list_actions", TRUE, NoId,
                                 list_actions(healing_actions, now, hours))
        /\ UNCHANGED <<now, ticks, healing_actions, store_frame>>

\* an hour passes between two calls
TickStore ==
    /\ pops < MaxStoreOps
    /\ ticks < MaxTicks
    /\ ticks' = ticks + 1
    /\ now' = now + OneHour
    /\ UNCHANGED <<healing_vars, problem_vars, idle_vars>>

\* an empty table of actions, one open problem
InitStore ==
    /\ now = 0
    /\ action_history = <<>>
    /\ healing_actions = <<>>
    /\ agent_activity = <<>>
    /\ problems = InsertProblem(<<>>, 0, ProblemTitle, "open", "GET:/targets?")
    /\ tie_break = "lowest_id"
    /\ cluster = [unschedulable |-> FALSE, replicas |-> 1, revision |-> 1]
    /\ request = [verb |-> "", dry_run |-> FALSE, api |-> "none", arg |-> 0]
    /\ result = StoreResult("", FALSE, NoId, <<>>)
    /\ calls = <<>>
    /\ gated = 0
    /\ problem_calls = <<>>
    /\ threads = <<>>
    /\ current_problem_id = NoId
    /\ CURRENT_PROBLEM_ID \in {Unset, Env(<<"7">>)}
    /\ http = NoRequest
    /\ tool_invocations = <<>>
    /\ attempt = 0
    /\ ops = 0 /\ ticks = 0 /\ store_faults = 0 /\ pops = 0

NextStore ==
    \/ RecordAction
    \/ UpdateOutcome
    \/ ListActions
    \/ TickStore
    \/ pops < MaxStoreOps /\ UpdateProblemStatus

SpecStore == InitStore /\ [][NextStore]_vars

(***************************************************************************)
(* The HTTP middleware log_tool_invocation around one request.  The        *)
(* endpoint runs inside call_next; what follows call_next runs after the   *)
(* endpoint has returned.                                                  *)
(***************************************************************************)
\* f"{request.method}:{request.url.path}?{query_params or ''}"
HealthCheck == "GET:/health?"
ReadRequest == "GET:/targets?"
RestartRequest == "POST:/healing/restart-pod?namespace=default&pod_name=web-0"
RequestFingerprints == {HealthCheck, ReadRequest, RestartRequest}

\* f"{request.method} {request.url.path}"
RequestTitle(fingerprint) ==
    IF fingerprint = HealthCheck THEN "GET /health"
    ELSE IF fingerprint = ReadRequest THEN "GET /targets"
    ELSE "POST /healing/restart-pod"

\* request.url.path in {"/health", "/"}
Untracked == {HealthCheck}

\* the X-Problem-Id header: absent, a number, not a number
Headers == {Unset, Env(<<"1">>), Env(<<"x">>)}

\* int(header_problem_id) if header_problem_id else None; ValueError: None
header_problem_id(header) ==
    IF ~header.set \/ header.text = <<>> THEN NoId
    ELSE IF ParseInt(header.text).ok THEN ParseInt(header.text).value
    ELSE NoId

\* record_tool_invocation, called with the context variable set to the
\* problem id of the request
store_record_tool_invocation(rows, t, fingerprint, status_code, problem_id) ==
    Append(rows, [id          |-> Len(rows) + 1,
                  timestamp   |-> t,
                  request     |-> fingerprint,
                  status_code |-> status_code,
                  problem_id  |-> resolve_problem_id(problem_id, problem_id,
                                                     CURRENT_PROBLEM_ID)])

\* the middleware up to call_next
ReceiveRequest ==
    \E fingerprint \in RequestFingerprints, header \in Headers :
        /\ http.phase \in {"idle", "done"}
        /\ Len(tool_invocations) < MaxRequests
        /\ http' = [phase |-> "received",
                    header_problem_id |-> header_problem_id(header),
                    request_problem_id |-> NoId,
                    fingerprint |-> fingerprint,
                    actions |-> Len(healing_actions),
                    activity |-> Len(agent_activity)]
        /\ UNCHANGED <<now, ticks, healing_vars, problem_vars, threads,
                       current_problem_id, CURRENT_PROBLEM_ID, tool_invocations, attempt>>

\* call_next: the endpoint.  An exception that leaves the endpoint leaves the
\* middleware too.
HandleRequest ==
    /\ http.phase = "received"
    /\ IF http.fingerprint = RestartRequest
       THEN /\ \E api \in {"none", "write"}, sf \in StoreOutcomes :
                  restart_pod(FALSE, api, sf)
            /\ http' = IF result'.fault THEN NoRequest
                       ELSE [http EXCEPT !.phase = "handled"]
            /\ UNCHANGED <<now, ticks, problem_vars, threads, current_problem_id,
                           CURRENT_PROBLEM_ID, tool_invocations, attempt>>
       ELSE /\ http' = [http EXCEPT !.phase = "handled"]
            /\ UNCHANGED <<now, ticks, healing_vars, problem_vars, threads,
                           current_problem_id, CURRENT_PROBLEM_ID, tool_invocations, attempt>>

\* the middleware after call_next: the problem of the request is looked up or
\* created, the context variable is set, the invocation is logged (a failure
\* of the log is swallowed), the context variable is cleared
CompleteRequest ==
    \E logged \in BOOLEAN :
        LET derived  == http.header_problem_id = NoId /\ http.fingerprint \notin Untracked
            existing == find_open_problem(problems, http.fingerprint, tie_break)
            request_problem_id ==
                IF ~derived THEN http.header_problem_id
                ELSE IF existing # NoId THEN existing
                ELSE Len(problems) + 1
        IN  /\ http.phase = "handled"
            /\ IF derived
               THEN /\ get_or_create_problem(RequestTitle(http.fingerprint), http.fingerprint)
                    /\ UNCHANGED tie_break
               ELSE UNCHANGED problem_vars
            /\ tool_invocations' =
                  IF logged
                  THEN store_record_tool_invocation(tool_invocations, now, http.fingerprint,
                                                    IF result.success THEN 200 ELSE 500,
                                                    request_problem_id)
                  ELSE tool_invocations
            /\ http' = [http EXCEPT !.phase = "done",
                                    !.request_problem_id = request_problem_id]
            /\ current_problem_id' = NoId
            /\ UNCHANGED <<now, ticks, healing_vars, threads, CURRENT_PROBLEM_ID, attempt>>

InitRequest ==
    /\ now = 0
    /\ action_history = <<>>
    /\ healing_actions = <<>>
    /\ agent_activity = <<>>
    /\ problems = <<>>
    /\ tie_break = "lowest_id"
    /\ cluster = [unschedulable |-> FALSE, replicas |-> 1, revision |-> 1]
    /\ request = [verb |-> "", dry_run |-> FALSE, api |-> "none", arg |-> 0]
    /\ result = NoResult
    /\ calls = <<>>
    /\ gated = 0
    /\ problem_calls = <<>>
    /\ threads = <<>>
    /\ current_problem_id = NoId
    /\ CURRENT_PROBLEM_ID \in {Unset, Env(<<"7">>)}
    /\ http = NoRequest
    /\ tool_invocations = <<>>
    /\ attempt = 0
    /\ ops = 0 /\ ticks = 0 /\ store_faults = 0 /\ pops = 0

NextRequest ==
    \/ ReceiveRequest
    \/ HandleRequest
    \/ CompleteRequest

SpecRequest == InitRequest /\ [][NextRequest]_vars

(***************************************************************************)
(* A client that repeats one request: the loop of test_11_rate_limiting,   *)
(* which sends the dry run of delete-failed-pods max_attempts times and    *)
(* leaves the loop at the first response that names the rate limit.        *)
(***************************************************************************)
\* "rate limit" in data.get("error", "").lower()
NamesRateLimit(res) == ~res.fault /\ ~res.success /\ res.error.text = "Rate limit exceeded"

\* requests.post(f"{API_URL}/healing/delete-failed-pods", params = {dry_run: True})
SendDryRun ==
    /\ attempt < max_attempts
    /\ attempt' = attempt + 1
    /\ \E n \in FailedPodCounts : delete_failed_pods(n, {}, TRUE, "none", "none")
    /\ UNCHANGED <<now, ticks, problem_vars, threads, current_problem_id,
                   CURRENT_PROBLEM_ID, http, tool_invocations>>

\* the response is read: count it and go round the loop, or break
ReadResponse ==
    /\ ops > 0
    /\ ops' = 0
    /\ attempt' = IF NamesRateLimit(result) THEN max_attempts ELSE attempt
    /\ UNCHANGED <<now, ticks, action_history, healing_actions, agent_activity, cluster,
                   request, result, calls, gated, store_faults, problem_vars, threads,
                   current_problem_id, CURRENT_PROBLEM_ID, http, tool_invocations>>

\* the admission log is empty, or holds what a storm of failed requests left
InitRepeat ==
    /\ now = 0
    /\ current_problem_id = NoId
    /\ CURRENT_PROBLEM_ID = Unset
    /\ \E n \in {0, max_actions_per_hour - 2, max_actions_per_hour} :
          /\ action_history = StormHistory(n)
          /\ healing_actions = StormActions(n)
          /\ agent_activity = StormActivity(n)
    /\ problems = <<>>
    /\ tie_break = "lowest_id"
    /\ cluster = [unschedulable |-> FALSE, replicas |-> 1, revision |-> 1]
    /\ request = [verb |-> "", dry_run |-> FALSE, api |-> "none", arg |-> 0]
    /\ result = NoResult
    /\ calls = <<>>
    /\ gated = 0
    /\ problem_calls = <<>>
    /\ threads = <<>>
    /\ http = NoRequest
    /\ tool_invocations = <<>>
    /\ attempt = 0
    /\ ops = 0 /\ ticks = 0 /\ store_faults = 0 /\ pops = 0

NextRepeat ==
    \/ SendDryRun
    \/ ReadResponse

\* the client goes on until its loop ends
SpecRepeat == InitRepeat /\ [][NextRepeat]_vars /\ WF_vars(NextRepeat)

(***************************************************************************)
(* ActionHistoryStore: the aggregations over healing_actions.  The table   *)
(* is any table of up to MaxRows actions, recorded in the order of their   *)
(* timestamps; request and result hold the last query and its answer.      *)
(***************************************************************************)
\* (action_type, namespace, resource) of the actions recorded
Kinds ==
    { [action_type |-> "restart_pod", namespace |-> Namespace, resource |-> PodName],
      [action_type |-> "restart_pod", namespace |-> Namespace, resource |-> "web-1"],
      [action_type |-> "scale_deployment", namespace |-> Namespace,
       resource |-> DeploymentName] }

\* resolution_time_seconds given to update_outcome (NoId: no outcome recorded)
ResolutionTimes == {NoId, 10, 11}

\* an outcome is recorded for actions that succeeded
RowSpecs ==
    {row \in [kind : Kinds, success : BOOLEAN, resolution_time_seconds : ResolutionTimes] :
        ~row.success => row.resolution_time_seconds = NoId}

\* record_action for every row, update_outcome for those with a resolution
\* time; the first old rows (one at most) were recorded two hours ago, the
\* others just now
RECURSIVE BuildTable(_, _)
BuildTable(specs, old) ==
    IF specs = <<>> THEN <<>>
    ELSE LET n     == Len(specs)
             row   == specs[n]
             added == store_record_action(BuildTable(SubSeq(specs, 1, n - 1), old),
                          IF n <= old THEN 0 ELSE 2 * OneHour,
                          row.kind.action_type, row.kind.namespace, row.kind.resource,
                          row.success, Plain("recorded"), NoId)
         IN  IF row.resolution_time_seconds = NoId THEN added
             ELSE update_outcome(added, n, "resolved", row.resolution_time_seconds,
                                 Plain(""))

RECURSIVE SumOf(_)
SumOf(numbers) ==
    IF numbers = <<>> THEN 0 ELSE Head(numbers) + SumOf(Tail(numbers))

\* round(a / b, digits) as a whole number of the last digit kept: the nearest
\* one, the even one of two equally near
RoundDiv(a, b) ==
    LET q == a \div b
        r == a % b
    IN  IF 2 * r > b \/ (2 * r = b /\ q % 2 = 1) THEN q + 1 ELSE q

\* avg_resolution_time_seconds in hundredths of a second, or None
NoAverage == [set |-> FALSE, hundredths |-> 0]
Average(times) ==
    IF times = <<>> THEN NoAverage
    ELSE [set |-> TRUE, hundredths |-> RoundDiv(100 * SumOf(times), Len(times))]

\* the per-type counters with the average left out
by_action_type_unaveraged(actions) ==
    [T \in {actions[i].action_type : i \in DOMAIN actions} |->
        LET mine == SelectSeq(actions, LAMBDA a : a.action_type = T)
        IN  [total   |-> Len(mine),
             success |-> Len(SelectSeq(mine, LAMBDA a : a.success)),
             failed  |-> Len(SelectSeq(mine, LAMBDA a : ~a.success)),
             avg_resolution_time_seconds |-> NoAverage]]

\* by_action of action_stats
by_action_type(actions) ==
    [T \in {actions[i].action_type : i \in DOMAIN actions} |->
        LET mine  == SelectSeq(actions, LAMBDA a : a.action_type = T)
            timed == SelectSeq(mine, LAMBDA a : a.resolution_time_seconds # NoId)
        IN  [total   |-> Len(mine),
             success |-> Len(SelectSeq(mine, LAMBDA a : a.success)),
             failed  |-> Len(SelectSeq(mine, LAMBDA a : ~a.success)),
             avg_resolution_time_seconds |->
                 Average([i \in DOMAIN timed |-> timed[i].resolution_time_seconds])]]

\* ActionHistoryStore.action_stats; success_rate in tenths of a percent
action_stats(rows, t, hours) ==
    LET actions    == list_actions(rows, t, hours)
        total      == Len(actions)
        successful == Len(SelectSeq(actions, LAMBDA a : a.success))
    IN  [time_period_hours  |-> hours,
         total_actions      |-> total,
         successful_actions |-> successful,
         failed_actions     |-> total - successful,
         success_rate       |-> IF total # 0 THEN RoundDiv(1000 * successful, total) ELSE 0,
         by_action_type     |-> by_action_type(actions)]

\* one row of SELECT namespace, resource, action_type, COUNT(*), MAX(timestamp)
\* ... GROUP BY namespace, resource, action_type
Issue(rows, kind) ==
    LET mine == {i \in DOMAIN rows :
                    /\ rows[i].namespace = kind.namespace
                    /\ rows[i].resource = kind.resource
                    /\ rows[i].action_type = kind.action_type}
    IN  [namespace   |-> kind.namespace,
         resource    |-> kind.resource,
         action_type |-> kind.action_type,
         occurrences |-> Cardinality(mine),
         last_seen   |-> (CHOOSE t \in {rows[i].timestamp : i \in mine} :
                             \A i \in mine : rows[i].timestamp <= t)]

\* the groups kept whatever their count
recurring_issues_unfiltered(rows, t, hours, min_count) ==
    LET cutoff == t - hours * OneHour
        recent == SelectSeq(rows, LAMBDA row : row.timestamp >= cutoff)
        groups == {[namespace |-> recent[i].namespace, resource |-> recent[i].resource,
                    action_type |-> recent[i].action_type] : i \in DOMAIN recent}
        kept   == {Issue(recent, g) : g \in groups}
    IN  {listing \in [1..Cardinality(kept) -> kept] :
            /\ \A i, j \in DOMAIN listing : i # j => listing[i] # listing[j]
            /\ \A i, j \in DOMAIN listing :
                  i < j => listing[i].occurrences >= listing[j].occurrences}

\* ActionHistoryStore.recurring_issues: the listings the query may return
\* (ORDER BY occurrences DESC leaves the order of equal counts open)
recurring_issues(rows, t, hours, min_count) ==
    LET cutoff == t - hours * OneHour
        recent == SelectSeq(rows, LAMBDA row : row.timestamp >= cutoff)
        groups == {[namespace |-> recent[i].namespace, resource |-> recent[i].resource,
                    action_type |-> recent[i].action_type] : i \in DOMAIN recent}
        kept   == {issue \in {Issue(recent, g) : g \in groups} :
                      issue.occurrences >= min_count}
    IN  {listing \in [1..Cardinality(kept) -> kept] :
            /\ \A i, j \in DOMAIN listing : i # j => listing[i] # listing[j]
            /\ \A i, j \in DOMAIN listing :
                  i < j => listing[i].occurrences >= listing[j].occurrences}

\* one query of the budget
Query(verb, arg) ==
    /\ ops < MaxOps
    /\ ops' = ops + 1
    /\ StoreRequest(verb, arg)
    /\ UNCHANGED <<now, ticks, action_history, healing_actions, agent_activity, cluster,
                   calls, gated, store_faults, problem_vars, idle_vars>>

ActionStats ==
    \E hours \in {1} :
        /\ Query("action_stats", [hours |-> hours, min_count |-> 0])
        /\ result' = StoreResult("action_stats", TRUE, NoId,
                                 action_stats(healing_actions, now, hours))

RecurringIssues ==
    \E hours \in {1}, min_count \in {1, 2} :
        /\ Query("recurring_issues", [hours |-> hours, min_count |-> min_count])
        /\ \E listing \in recurring_issues(healing_actions, now, hours, min_count) :
              result' = StoreResult("recurring_issues", TRUE, NoId, listing)

InitStats ==
    /\ now = 2 * OneHour
    /\ current_problem_id = NoId
    /\ CURRENT_PROBLEM_ID = Unset
    /\ action_history = <<>>
    /\ \E n \in 0..MaxRows :
          \E specs \in [1..n -> RowSpecs], old \in {0, 1} :
              healing_actions = BuildTable(specs, old)
    /\ agent_activity = <<>>
    /\ problems = <<>>
    /\ tie_break = "lowest_id"
    /\ cluster = [unschedulable |-> FALSE, replicas |-> 1, revision |-> 1]
    /\ request = [verb |-> "", dry_run |-> FALSE, api |-> "none", arg |-> 0]
    /\ result = StoreResult("", FALSE, NoId, <<>>)
    /\ calls = <<>>
    /\ gated = 0
    /\ problem_calls = <<>>
    /\ threads = <<>>
    /\ http = NoRequest
    /\ tool_invocations = <<>>
    /\ attempt = 0
    /\ ops = 0 /\ ticks = 0 /\ store_faults = 0 /\ pops = 0

NextStats ==
    \/ ActionStats
    \/ RecurringIssues

SpecStats == InitStats /\ [][NextStats]_vars

(***************************************************************************)
(* ActionHistoryStore: listing the problems                                *)
(***************************************************************************)
\* A row of the problems table: created, then perhaps given a status again
\* later.  namespace, resource and severity are NULL in every row.
ProblemRow(id, created_at, last_updated, status, fingerprint) ==
    [InsertProblem(<<>>, created_at, ProblemTitle, status, fingerprint)[1]
        EXCEPT !.id = id, !.last_updated = last_updated]

\* row[0] .. row[9] of the tuple the cursor returned; a tuple of fewer than
\* ten columns has no row[9]
row_to_problem_dict(row) ==
    IF Len(row) < 10 THEN "IndexError"
    ELSE [id |-> row[1], created_at |-> row[2], title |-> row[3], namespace |-> row[4],
          resource |-> row[5], severity |-> row[6], status |-> row[7], summary |-> row[8],
          fingerprint |-> row[9], last_updated |-> row[10]]

\* SELECT id, created_at, title, namespace, resource, severity, status,
\* summary, last_updated FROM problems WHERE created_at >= cutoff ORDER BY
\* last_updated DESC LIMIT limit, each tuple handed to _row_to_problem_dict.
\* The outcomes the call may have: the engine orders rows of one
\* last_updated as it chooses.
list_problems(rows, t, hours, limit) ==
    LET cutoff == t - hours * OneHour
        recent == {i \in DOMAIN rows : rows[i].created_at >= cutoff}
        orders == {o \in [1..Cardinality(recent) -> recent] :
                      /\ \A i, j \in DOMAIN o : i # j => o[i] # o[j]
                      /\ \A i, j \in DOMAIN o :
                            i < j => rows[o[i]].last_updated >= rows[o[j]].last_updated}
        Tuple(r) == <<r.id, r.created_at, r.title, "NULL", "NULL", "NULL", r.status,
                      r.summary, r.last_updated>>
        Fetch(o) == [i \in 1..(IF Len(o) < limit THEN Len(o) ELSE limit) |->
                        row_to_problem_dict(Tuple(rows[o[i]]))]
    IN  {IF \E i \in DOMAIN Fetch(o) : Fetch(o)[i] = "IndexError"
         THEN StoreResult("list_problems", FALSE, NoId, <<>>)
         ELSE StoreResult("list_problems", TRUE, NoId, Fetch(o)) : o \in orders}

ListProblems ==
    \E hours \in {1, 4}, limit \in {1, 2} :
        /\ Query("list_problems", [hours |-> hours, limit |-> limit])
        /\ result' \in list_problems(problems, now, hours, limit)

InitList ==
    /\ now = 3 * OneHour
    /\ current_problem_id = NoId
    /\ CURRENT_PROBLEM_ID = Unset
    /\ action_history = <<>>
    /\ healing_actions = <<>>
    /\ agent_activity = <<>>
    /\ \E n \in 0..MaxProblems :
          \E created \in [1..n -> {0, 2 * OneHour}], later \in [1..n -> {0, OneHour}],
             status \in [1..n -> Statuses], fingerprint \in [1..n -> Fingerprints] :
              problems = [i \in 1..n |->
                             ProblemRow(i, created[i], created[i] + later[i],
                                        status[i], fingerprint[i])]
    /\ tie_break = "lowest_id"
    /\ cluster = [unschedulable |-> FALSE, replicas |-> 1, revision |-> 1]
    /\ request = [verb |-> "", dry_run |-> FALSE, api |-> "none", arg |-> 0]
    /\ result = StoreResult("", FALSE, NoId, <<>>)
    /\ calls = <<>>
    /\ gated = 0
    /\ problem_calls = <<>>
    /\ threads = <<>>
    /\ http = NoRequest
    /\ tool_invocations = <<>>
    /\ attempt = 0
    /\ ops = 0 /\ ticks = 0 /\ store_faults = 0 /\ pops = 0

SpecList == InitList /\ [][ListProblems]_vars

(***************************************************************************)
(* Properties of the admission gate, stated from the log alone.            *)
(***************************************************************************)
ActionTypes == {"restart_pod", "scale_deployment", "cordon_node", "drain_node", "x"}
ResourceCounts == 0..(max_pods_per_action + 1)

\* can_perform_action(T, n) asked in the current state
Verdict(T, n) == can_perform_action(action_history, now, T, n)

\* entries recorded less than an hour ago
TrailingHour ==
    {i \in DOMAIN action_history : now - action_history[i].timestamp < OneHour}
HourlyLimitReached == Cardinality(TrailingHour) >= max_actions_per_hour

\* entries of type T recorded less than cooldown_minutes ago
CoolingEntries(T) ==
    {i \in DOMAIN action_history :
        /\ action_history[i].action_type = T
        /\ now - action_history[i].timestamp < CooldownSeconds}
InCooldown(T) == CoolingEntries(T) # {}
MostRecent(T) == CHOOSE i \in CoolingEntries(T) : \A j \in CoolingEntries(T) : j <= i
SecondsLeft(T) == CooldownSeconds - (now - action_history[MostRecent(T)].timestamp)

\* the texts of the three refusals
DenialTexts == {"Rate limit exceeded", "Blast radius too large", "Cooldown active"}
\* the last invocation was refused by the gate
Denied(res) == ~res.fault /\ ~res.success /\ res.error.text \in DenialTexts
\* a step of a verb (the clock stands still)
VerbStep == now' = now

\* C1: with max_actions_per_hour or more entries in the trailing hour, the
\* gate denies every action type and every resource count with the "rate
\* limit" reason.
C1_RateLimit ==
    HourlyLimitReached =>
        \A T \in ActionTypes, n \in ResourceCounts :
            /\ ~Verdict(T, n).allowed
            /\ Verdict(T, n).reason.text = "Rate limit exceeded"
            /\ Verdict(T, n).reason.max = max_actions_per_hour

\* a verb was refused for the rate limit, the log holding exactly the limit
C1_Witness ==
    /\ HourlyLimitReached
    /\ Cardinality(TrailingHour) = max_actions_per_hour
    /\ Denied(result) /\ result.error.text = "Rate limit exceeded"

\* C2 as stated: max_pods_per_action + 1 resources are always denied with
\* the "blast radius" reason, whatever the log holds.
C2_BlastRadiusAlways ==
    \A T \in ActionTypes :
        /\ ~Verdict(T, max_pods_per_action + 1).allowed
        /\ Verdict(T, max_pods_per_action + 1).reason.text = "Blast radius too large"

\* C2, amended: max_pods_per_action + 1 resources are always denied; the
\* reason is "blast radius" (also during a cooldown of the type) unless the
\* hourly limit is reached, and then it is "rate limit".
C2_BlastRadius ==
    \A T \in ActionTypes :
        LET v == Verdict(T, max_pods_per_action + 1)
        IN  /\ ~v.allowed
            /\ v.reason.text = IF HourlyLimitReached THEN "Rate limit exceeded"
                               ELSE "Blast radius too large"
            /\ ~HourlyLimitReached =>
                  /\ v.reason.n = max_pods_per_action + 1
                  /\ v.reason.max = max_pods_per_action

\* a verb asking for too many resources was refused for the blast radius
\* while its own type was cooling down
C2_Witness ==
    /\ ~HourlyLimitReached
    /\ Denied(result) /\ result.error.text = "Blast radius too large"
    /\ InCooldown(result.action)

\* C3 as stated: during the cooldown of T, neither other policy applying, the
\* gate denies with a "cooldown" reason whose minutes are > 0 and at most
\* cooldown_minutes.
C3_CooldownPositive ==
    \A T \in ActionTypes, n \in 0..max_pods_per_action :
        (InCooldown(T) /\ ~HourlyLimitReached) =>
            LET v == Verdict(T, n)
            IN  /\ ~v.allowed
                /\ v.reason.text = "Cooldown active"
                /\ v.reason.n > 0
                /\ v.reason.n <= 10 * cooldown_minutes

\* C3, amended: ... denies with a "cooldown" reason naming T; the time left,
\* counted from the most recent entry of T, is > 0 and at most the cooldown;
\* the reason shows it rounded to a tenth of a minute, from 0.0 up to
\* cooldown_minutes.
C3_Cooldown ==
    \A T \in ActionTypes, n \in 0..max_pods_per_action :
        (InCooldown(T) /\ ~HourlyLimitReached) =>
            LET v == Verdict(T, n)
            IN  /\ ~v.allowed
                /\ v.reason.text = "Cooldown active"
                /\ v.reason.type = T
                /\ SecondsLeft(T) > 0 /\ SecondsLeft(T) <= CooldownSeconds
                /\ 6 * v.reason.n - 3 <= SecondsLeft(T)
                /\ SecondsLeft(T) < 6 * v.reason.n + 3
                /\ v.reason.n >= 0 /\ v.reason.n <= 10 * cooldown_minutes

\* a verb was refused two seconds before the end of its cooldown: the reason
\* shows 0.0 minutes
C3_Witness ==
    /\ Denied(result) /\ result.error.text = "Cooldown active"
    /\ result.error.n = 0
    /\ InCooldown(result.action) /\ SecondsLeft(result.action) = 2

\* C4: the policies are examined in the order rate, blast radius, cooldown;
\* the reason is that of the first one violated, and the action is allowed
\* exactly when none is.
C4_PolicyOrder ==
    \A T \in ActionTypes, n \in ResourceCounts :
        LET v == Verdict(T, n)
            rate  == HourlyLimitReached
            blast == n > max_pods_per_action
            cool  == InCooldown(T)
        IN  /\ rate => v.reason.text = "Rate limit exceeded"
            /\ (~rate /\ blast) => v.reason.text = "Blast radius too large"
            /\ (~rate /\ ~blast /\ cool) => v.reason.text = "Cooldown active"
            /\ v.allowed <=> (~rate /\ ~blast /\ ~cool)
            /\ v.allowed => v.reason.text = "Action allowed"

\* a scale by 8 replicas asked at the hourly limit, during the cooldown of
\* the type: all three policies are violated, the rate limit is reported
C4_Witness ==
    /\ HourlyLimitReached
    /\ InCooldown("scale_deployment")
    /\ request.verb = "scale_deployment" /\ request.arg = 9 /\ cluster.replicas = 1
    /\ Denied(result) /\ result.error.text = "Rate limit exceeded"

(***************************************************************************)
(* Properties of the verbs, stated on the steps that invoke them.          *)
(***************************************************************************)
LastRow == healing_actions'[Len(healing_actions')]
LastEntry == action_history'[Len(action_history')]

\* C5: when the gate denies a verb invoked with dry_run = false, the verb
\* issues no mutating call and the cluster is left as it was.
C5_DenialTouchesNothing ==
    [][(VerbStep /\ Denied(result') /\ ~request'.dry_run) =>
          (calls' = <<>> /\ cluster' = cluster /\ gated' = 1)]_vars

\* a drain with pods to evict, not a dry run, was refused
C5_Witness ==
    /\ Denied(result) /\ ~request.dry_run
    /\ request.verb = "drain_node" /\ request.arg > 0
    /\ calls = <<>>

\* C6 as stated: every denial by the gate is recorded in the store as a
\* failed action whose details are the reason of the denial.
C6_DenialRecorded ==
    [][(VerbStep /\ Denied(result')) =>
          /\ Len(healing_actions') = Len(healing_actions) + 1
          /\ ~LastRow.success
          /\ LastRow.action_type = request'.verb
          /\ LastRow.details = result'.error]_vars

\* the invocation recorded exactly one failed action, in the store and in
\* the log, and returned its id
RecordedFailure ==
    /\ ~result'.fault /\ ~result'.success
    /\ result'.error.text # ""
    /\ Len(healing_actions') = Len(healing_actions) + 1
    /\ ~LastRow.success
    /\ LastRow.action_type = request'.verb
    /\ LastRow.details = result'.error
    /\ Len(action_history') = Len(action_history) + 1
    /\ ~LastEntry.success
    /\ LastEntry.action_type = request'.verb
    /\ result'.action_id = LastRow.id

\* a collaborator call of the invocation raised an API error
ApiErrorStep == VerbStep /\ request'.api # "none"

C8_StoreFailurePropagates ==
    [][(VerbStep /\ (\/ store_faults' > store_faults
                     \/ /\ Len(action_history') > Len(action_history)
                        /\ healing_actions' = healing_actions)) =>
          (result'.fault /\ ~result'.success)]_vars

\* the cluster call went through, the insert of the action row failed: the
\* log holds the entry, the table does not, the verb raised
C8_Witness ==
    /\ result.fault
    /\ store_faults = 1
    /\ calls # <<>>
    /\ Len(action_history) = Len(healing_actions) + 1
    /\ action_history[Len(action_history)].success

\* C9 as stated: scale_deployment to the current replica count and
\* cordon_node on a cordoned node never ask the gate, never change the
\* cluster, and succeed whatever the log holds.
C9_NoOpsBypassGate ==
    [][(/\ VerbStep
        /\ request'.api = "none"
        /\ \/ request'.verb = "scale_deployment" /\ request'.arg = cluster.replicas
           \/ request'.verb = "cordon_node" /\ cluster.unschedulable) =>
          /\ gated' = 0
          /\ calls' = <<>> /\ cluster' = cluster
          /\ result'.success /\ ~result'.fault]_vars

(***************************************************************************)
(* Properties of the problems table, stated on its last three calls.       *)
(***************************************************************************)
IsLookup(c) == c.op = "get_or_create_problem"

\* two calls get_or_create_problem(title, fp) in a row: the same id, and the
\* second creates nothing
SameProblemTwice ==
    \A i \in 1..(Len(problem_calls) - 1) :
        LET a == problem_calls[i]
            b == problem_calls[i + 1]
        IN  (IsLookup(a) /\ IsLookup(b) /\ a.fingerprint = b.fingerprint) =>
                (b.id = a.id /\ ~b.created)

\* the last three calls were get_or_create_problem(title, fp) returning id,
\* update_problem_status(id, "resolved"), get_or_create_problem(title, fp)
ResolvedThenAsked ==
    /\ Len(problem_calls) = 3
    /\ IsLookup(problem_calls[1]) /\ IsLookup(problem_calls[3])
    /\ problem_calls[3].fingerprint = problem_calls[1].fingerprint
    /\ problem_calls[2].op = "update_problem_status"
    /\ problem_calls[2].id = problem_calls[1].id
    /\ problem_calls[2].status = "resolved"

\* C10 as stated: two calls in a row return the same id and create one row
\* at most; after update_problem_status(id, "resolved") the next call with
\* the fingerprint creates a row and returns its id, different from the first.
C10_ResolvedCreatesNew ==
    /\ SameProblemTwice
    /\ ResolvedThenAsked =>
          /\ problem_calls[3].created
          /\ problem_calls[3].id = Len(problems)
          /\ problem_calls[3].id # problem_calls[1].id

\* What get_or_create_problem does in C10's case: after
\* update_problem_status(id, "resolved") the next call returns an id different
\* from the first: when no other open problem carries the fingerprint it
\* creates a row and returns the new id, else it returns such a problem and
\* creates nothing.
C10_Dedup ==
    [][/\ SameProblemTwice'
       /\ (pops' = pops + 1 /\ ResolvedThenAsked') =>
             LET first  == problem_calls'[1]
                 third  == problem_calls'[3]
                 others == OpenProblems(problems, third.fingerprint)
             IN  /\ third.id # first.id
                 /\ IF others = {}
                    THEN /\ third.created
                         /\ Len(problems') = Len(problems) + 1
                         /\ third.id = Len(problems')
                    ELSE /\ ~third.created
                         /\ third.id \in others
                         /\ problems' = problems]_vars

\* asked, resolved, asked again: the third call created a new problem
C10_Witness ==
    /\ ResolvedThenAsked
    /\ problem_calls[3].created
    /\ problem_calls[3].id # problem_calls[1].id
    /\ problems[problem_calls[1].id].status = "resolved"

\* C11 as stated: after any sequence of create_problem, get_or_create_problem
\* and update_problem_status, run one after the other, at most one problem
\* with status "open" exists per fingerprint.
C11_OneOpenPerFingerprint ==
    \A fingerprint \in Fingerprints :
        Cardinality(OpenProblems(problems, fingerprint)) <= 1

(***************************************************************************)
(* Properties of requests served at the same time.                         *)
(***************************************************************************)
\* entries of the log that record an executed action of the type
Executed(action_type) ==
    {i \in DOMAIN action_history :
        action_history[i].action_type = action_type /\ action_history[i].success}

\* C12: the gate's check appends nothing, and a request the gate admitted
\* goes on to its cluster call and to its record whatever the other request
\* has recorded meanwhile; so two requests of one type can both be admitted
\* and executed, beyond what the cooldown and the hourly limit allow.
C12_CheckThenAppend ==
    [][\A r \in Threads :
          /\ (threads[r].pc = "start" /\ threads'[r].pc # "start"
                                      /\ threads[r].op \in RaceVerbs) =>
                /\ action_history' = action_history
                /\ threads'[r].allowed =
                      can_perform_action(action_history, now, threads[r].op, 1).allowed
          /\ (threads[r].pc = "admitted" /\ threads'[r].pc # "admitted") =>
                /\ threads'[r].pc = "executed"
                /\ threads'[r].called = RaceCall(threads[r].op)
          /\ (threads[r].pc = "executed" /\ threads'[r].pc # "executed") =>
                /\ Len(action_history') = Len(action_history) + 1
                /\ action_history'[Len(action_history')].action_type = threads[r].op
                /\ action_history'[Len(action_history')].success]_vars

\* both requests asked for the same verb at the same instant, both were
\* admitted and executed: two executions of one type within its cooldown,
\* and more entries in the hour than the hourly limit
C12_Witness ==
    /\ \A r \in Threads : threads[r].pc = "done" /\ threads[r].allowed
                          /\ threads[r].called # ""
    /\ threads[1].op = threads[2].op
    /\ Cardinality(Executed(threads[1].op)) = 2
    /\ \A i \in Executed(threads[1].op) :
          now - action_history[i].timestamp < CooldownSeconds
    /\ Cardinality(TrailingHour) > max_actions_per_hour

\* C13: a call that found no open problem inserts one whatever the other
\* call has inserted meanwhile, and no step lowers the number of open
\* problems of a fingerprint; so two calls can both find nothing and leave
\* two open problems with one fingerprint, which stay.
C13_FindThenCreate ==
    [][/\ \A r \in Threads :
             /\ (threads[r].pc = "start" /\ threads'[r].pc # "start"
                    /\ threads[r].op = "get_or_create_problem") =>
                   /\ problems' = problems
                   /\ threads'[r].pc = "missing" <=>
                         OpenProblems(problems, threads[r].arg) = {}
             /\ (threads[r].pc = "missing" /\ threads'[r].pc # "missing") =>
                   /\ Len(problems') = Len(problems) + 1
                   /\ threads'[r].returned = Len(problems')
                   /\ problems'[Len(problems')].fingerprint = threads[r].arg
                   /\ problems'[Len(problems')].status = "open"
       /\ \A fingerprint \in Fingerprints :
             OpenProblems(problems, fingerprint) \subseteq
                 OpenProblems(problems', fingerprint)]_vars

\* both calls found nothing and both created: two open problems with one
\* fingerprint, each call holding its own id
C13_Witness ==
    /\ \A r \in Threads : /\ threads[r].pc = "done"
                          /\ threads[r].op = "get_or_create_problem"
                          /\ threads[r].created
    /\ threads[1].arg = threads[2].arg
    /\ threads[1].returned # threads[2].returned
    /\ Cardinality(OpenProblems(problems, threads[1].arg)) = 2

(***************************************************************************)
(* Properties of the problem id stored with a write.                       *)
(***************************************************************************)
\* the environment texts that are integers, with their values
EnvIntegers ==
    (<<"7">> :> 7) @@ (<<" ", "4", "2", " ">> :> 42) @@ (<<"-", "3">> :> -3)

\* C15: the problem id stored is the explicit argument if there is one, else
\* the value of the request context if set, else the environment fallback if
\* it is an integer, else none.
C15_ResolutionOrder ==
    (request.verb = "record_agent_activity" /\ agent_activity # <<>>) =>
        LET stored == agent_activity[Len(agent_activity)].problem_id
            text   == CURRENT_PROBLEM_ID.text
        IN  /\ request.arg # NoId => stored = request.arg
            /\ (request.arg = NoId /\ current_problem_id # NoId) =>
                  stored = current_problem_id
            /\ (request.arg = NoId /\ current_problem_id = NoId) =>
                  stored = IF CURRENT_PROBLEM_ID.set /\ text \in DOMAIN EnvIntegers
                           THEN EnvIntegers[text] ELSE NoId

\* no explicit id, the context set and the environment a valid integer: the
\* context wins
C15_Witness ==
    /\ request.verb = "record_agent_activity" /\ request.arg = NoId
    /\ current_problem_id = 3
    /\ CURRENT_PROBLEM_ID = Env(<<"7">>)
    /\ agent_activity # <<>>
    /\ agent_activity[Len(agent_activity)].problem_id = 3

(***************************************************************************)
(* Properties of the calls on healing_actions.                             *)
(***************************************************************************)
\* the fields update_outcome is meant to leave alone
Recorded(row) ==
    <<row.id, row.action_type, row.timestamp, row.namespace, row.resource,
      row.success, row.details, row.problem_id>>

\* the problem id a write made with no request context ends up with
Inherited(problem_id) ==
    IF problem_id # NoId THEN problem_id
    ELSE IF CURRENT_PROBLEM_ID = Env(<<"7">>) THEN 7 ELSE NoId

\* list_actions right after record_action, over a window that covers it: one
\* entry for the action, its fields those given, its problem id the one named
ListsRecorded(problem_id) ==
    (/\ pops' = pops + 1 /\ problem_calls' = problem_calls
     /\ request.verb = "record_action" /\ request'.verb = "list_actions"
     /\ request'.arg.hours * OneHour >= now - request.arg.at) =>
        LET listing == result'.listing
            mine == {i \in DOMAIN listing : listing[i].id = result.returned}
        IN  /\ Cardinality(mine) = 1
            /\ \A i \in mine :
                  /\ listing[i].action_type = request.arg.action_type
                  /\ listing[i].timestamp = request.arg.at
                  /\ listing[i].namespace = Namespace
                  /\ listing[i].resource = PodName
                  /\ listing[i].success = request.arg.success
                  /\ listing[i].details = Plain("Pod deleted for restart")
                  /\ listing[i].problem_id = problem_id
                  /\ listing[i].outcome = ""

\* update_outcome changes outcome, resolution_time_seconds and notes of its
\* row and nothing else
OutcomeOnly ==
    (pops' = pops + 1 /\ problem_calls' = problem_calls
                      /\ request'.verb = "update_outcome") =>
        /\ Len(healing_actions') = Len(healing_actions)
        /\ \A i \in DOMAIN healing_actions :
              /\ Recorded(healing_actions'[i]) = Recorded(healing_actions[i])
              /\ IF healing_actions[i].id = request'.arg.action_id
                 THEN /\ healing_actions'[i].outcome = request'.arg.outcome
                      /\ healing_actions'[i].resolution_time_seconds =
                            request'.arg.resolution_time_seconds
                      /\ healing_actions'[i].notes = request'.arg.notes
                 ELSE healing_actions'[i] = healing_actions[i]

\* C16 as stated: record_action followed by list_actions over a window that
\* covers it returns exactly one entry for the action with all fields equal
\* to the input, the problem id included; update_outcome changes only
\* outcome, resolution_time_seconds and notes of its row.
C16_RoundTripVerbatim ==
    [][ListsRecorded(request.arg.problem_id) /\ OutcomeOnly]_vars

\* C16: record_action followed by list_actions over a window that covers it
\* returns exactly one entry for the action, its fields equal to the input
\* except that a problem id left out is listed as the one inherited from the
\* context or from CURRENT_PROBLEM_ID; update_outcome changes only outcome,
\* resolution_time_seconds and notes of its row and no other row.
C16_RoundTrip ==
    [][ListsRecorded(Inherited(request.arg.problem_id)) /\ OutcomeOnly]_vars

\* an action recorded, its outcome set, then listed an hour later: the
\* listing shows it as recorded, with the outcome
C16_Witness ==
    /\ result.op = "list_actions"
    /\ Len(result.listing) = 1
    /\ result.listing[1].outcome = "resolved"
    /\ result.listing[1].resolution_time_seconds = 30
    /\ result.listing[1].action_type = "restart_pod"
    /\ result.listing[1].timestamp < now

\* C17: update_outcome and update_problem_status return true exactly when a
\* row with the id exists; when none does they change no row of the store.
C17_UpdateMissingId ==
    [][/\ (pops' = pops + 1 /\ problem_calls' = problem_calls
                            /\ request'.verb = "update_outcome") =>
             LET found == \E i \in DOMAIN healing_actions :
                              healing_actions[i].id = request'.arg.action_id
             IN  /\ result'.ok <=> found
                 /\ found => Len(healing_actions') = Len(healing_actions)
                 /\ ~found => /\ healing_actions' = healing_actions
                               /\ agent_activity' = agent_activity
                               /\ problems' = problems
       /\ (pops' = pops + 1 /\ Len(problem_calls') = Len(problem_calls) + 1
              /\ problem_calls'[Len(problem_calls')].op = "update_problem_status") =>
             LET call == problem_calls'[Len(problem_calls')]
                 found == \E i \in DOMAIN problems : problems[i].id = call.id
             IN  /\ call.updated <=> found
                 /\ found => /\ problems'[call.id].status = call.status
                              /\ problems'[call.id].last_updated = now
                 /\ ~found => /\ problems' = problems
                               /\ healing_actions' = healing_actions
                               /\ agent_activity' = agent_activity]_vars

\* both updates were asked for an id no row has, next to rows that exist:
\* both returned false
C17_Witness ==
    /\ result.op = "update_outcome" /\ ~result.ok
    /\ healing_actions # <<>>
    /\ problem_calls # <<>>
    /\ problem_calls[Len(problem_calls)].op = "update_problem_status"
    /\ ~problem_calls[Len(problem_calls)].updated
    /\ problems # <<>>

(***************************************************************************)
(* Properties of dry runs.                                                 *)
(***************************************************************************)
\* a drain whose listing of the node's pods succeeded
DrainStep == VerbStep /\ request'.verb = "drain_node" /\ request'.api # "read"

\* what the gate says of the drain asked for
DrainVerdict == Verdict("drain_node", request'.arg)

\* the dry run returns the preview with the gate's verdict in it; the real
\* run refused by the gate returns the refusal and evicts nothing
PreviewOrRefusal ==
    /\ request'.dry_run =>
          /\ ~result'.fault /\ result'.success /\ result'.dry_run
          /\ result'.would_be_blocked <=> ~DrainVerdict.allowed
          /\ ~DrainVerdict.allowed => result'.block_reason = DrainVerdict.reason
          /\ calls' = <<>> /\ cluster' = cluster
          /\ healing_actions' = healing_actions /\ action_history' = action_history
    /\ (~request'.dry_run /\ gated' = 1 /\ ~DrainVerdict.allowed) =>
          /\ ~result'.fault /\ ~result'.success
          /\ result'.error = DrainVerdict.reason
          /\ calls' = <<>>

\* C18: on a node with at least one evictable pod, drain_node in dry-run mode
\* reports the gate's verdict as would_be_blocked/block_reason and returns
\* the preview with success = true even when the gate denies, and with
\* dry_run = false a denial returns success = false before any eviction
\* request; on a node with no evictable pod the gate is not consulted and
\* both modes return success = true with nothing reported as blocked.
C18_DrainPreview ==
    [][DrainStep =>
          IF request'.arg > 0 THEN PreviewOrRefusal
          ELSE /\ ~result'.fault /\ result'.success
               /\ ~result'.would_be_blocked
               /\ result'.dry_run = request'.dry_run
               /\ calls' = <<>> /\ gated' = 0]_vars

\* the dry run of a drain of six pods: the preview, marked as one the blast
\* radius limit would block
C18_Witness ==
    /\ request.verb = "drain_node" /\ request.dry_run /\ request.arg = 6
    /\ result.success /\ result.dry_run
    /\ result.would_be_blocked
    /\ result.block_reason.text = "Blast radius too large"
    /\ calls = <<>>

\* a dry run whose collaborator calls, if any, all succeed
DryRunStep == VerbStep /\ request'.dry_run /\ request'.api = "none"

\* C19 as stated: a dry run of any verb against an existing resource returns
\* success = true with dry_run = true, whatever the admission log holds.
C19_DryRunSucceeds ==
    [][DryRunStep => (~result'.fault /\ result'.success /\ result'.dry_run)]_vars

\* the verbs whose dry run the gate cannot refuse
NeverRefused == {"drain_node", "uncordon_node"}

\* C19: a dry run of a verb against an existing resource returns dry_run =
\* true, and success = true unless the gate refuses it: restart_pod,
\* delete_failed_pods, evict_pod_from_node, scale_deployment,
\* rollback_deployment and cordon_node consult the gate before the dry-run
\* return and answer success = false with the gate's reason, as they do at
\* the hourly limit; drain_node and uncordon_node always preview.
C19_DryRun ==
    [][DryRunStep =>
          /\ ~result'.fault /\ result'.dry_run
          /\ result'.success <=> ~Denied(result')
          /\ Denied(result') => (gated' = 1 /\ request'.verb \notin NeverRefused)
          /\ request'.verb \in NeverRefused => result'.success
          /\ (HourlyLimitReached /\ gated' = 1 /\ request'.verb \notin NeverRefused) =>
                (Denied(result') /\ result'.error.text = "Rate limit exceeded")
          /\ calls' = <<>>]_vars

\* the dry run of a restart asked at the hourly limit was refused
C19_Witness ==
    /\ request.verb = "restart_pod" /\ request.dry_run /\ request.api = "none"
    /\ HourlyLimitReached
    /\ Denied(result) /\ result.dry_run
    /\ result.error.text = "Rate limit exceeded"

\* C20: for every verb, an invocation with dry_run = true issues no mutating
\* call, and the cluster after it is the cluster before it.
C20_DryRunMutatesNothing ==
    [][(VerbStep /\ request'.dry_run) => (calls' = <<>> /\ cluster' = cluster)]_vars

\* the dry run of a cordon on a schedulable node was admitted and previewed:
\* the node is still schedulable and no call went out
C20_Witness ==
    /\ request.verb = "cordon_node" /\ request.dry_run
    /\ result.success /\ result.dry_run
    /\ ~cluster.unschedulable
    /\ calls = <<>>

(***************************************************************************)
(* Properties of the request context.                                      *)
(***************************************************************************)
\* C14 as stated: for a request without an explicit problem id, every
\* healing action and every agent activity written while the request is
\* handled carries the problem id the middleware obtained from
\* get_or_create_problem for the fingerprint of the request.
C14_WritesInheritProblemId ==
    (/\ http.phase = "done"
     /\ http.header_problem_id = NoId
     /\ http.fingerprint \notin Untracked) =>
        /\ http.request_problem_id # NoId
        /\ \A i \in DOMAIN healing_actions :
              i > http.actions => healing_actions[i].problem_id = http.request_problem_id
        /\ \A i \in DOMAIN agent_activity :
              i > http.activity => agent_activity[i].problem_id = http.request_problem_id

ScaleTooFar ==
    /\ VerbStep /\ request'.verb = "scale_deployment" /\ request'.api # "read"
    /\ Abs(request'.arg - cluster.replicas) > max_pods_per_action

\* C22 as stated: a scale_deployment request, dry run or real, whose
\* |target - current| exceeds max_pods_per_action is refused with success =
\* false, never patches the deployment, and its error is the blast radius
\* reason.
C22_ScaleBlastRadiusAlways ==
    [][ScaleTooFar =>
          /\ Denied(result')
          /\ calls' = <<>> /\ cluster' = cluster
          /\ result'.error.text = "Blast radius too large"]_vars

\* C22: scale_deployment gates with resources = |target - current|: a request,
\* dry run or real, whose |target - current| exceeds max_pods_per_action is
\* refused with success = false and never patches the deployment; its error
\* is the blast radius reason, naming |target - current|, unless the hourly
\* limit is reached, and then it is the rate limit reason.
C22_ScaleBlastRadius ==
    [][ScaleTooFar =>
          /\ Denied(result')
          /\ calls' = <<>> /\ cluster' = cluster
          /\ result'.dry_run = request'.dry_run
          /\ IF HourlyLimitReached
             THEN result'.error.text = "Rate limit exceeded"
             ELSE /\ result'.error.text = "Blast radius too large"
                  /\ result'.error.n = Abs(request'.arg - cluster.replicas)
                  /\ result'.error.max = max_pods_per_action]_vars

\* the dry run of a scale from 1 to 9 replicas was refused for the blast
\* radius: 8 replicas would change
C22_Witness ==
    /\ request.verb = "scale_deployment" /\ request.dry_run /\ request.arg = 9
    /\ cluster.replicas = 1
    /\ Denied(result) /\ result.dry_run
    /\ result.error.text = "Blast radius too large" /\ result.error.n = 8

(***************************************************************************)
(* Properties of the aggregations, stated from the table and the query.    *)
(***************************************************************************)
\* the rows of the window asked for, and those of one type among them
InWindow ==
    {i \in DOMAIN healing_actions :
        healing_actions[i].timestamp >= now - request.arg.hours * OneHour}
OfType(T) == {i \in InWindow : healing_actions[i].action_type = T}
Timed(T)  == {i \in OfType(T) : healing_actions[i].resolution_time_seconds # NoId}

RECURSIVE TimeSum(_)
TimeSum(S) ==
    IF S = {} THEN 0
    ELSE LET i == CHOOSE j \in S : TRUE
         IN  healing_actions[i].resolution_time_seconds + TimeSum(S \ {i})

RECURSIVE TotalSum(_, _)
TotalSum(by, S) ==
    IF S = {} THEN 0
    ELSE LET T == CHOOSE U \in S : TRUE IN by[T].total + TotalSum(by, S \ {T})

\* C23: action_stats over a window returns total = successful + failed, the
\* counts of the rows of the window; one entry per type of the window, whose
\* totals sum to total and each satisfy total = success + failed; and for each
\* type an avg_resolution_time_seconds that is the mean (rounded to two
\* decimals) over that type's actions with a resolution time, and None, not
\* zero, when the type has no such action.
C23_ActionStats ==
    result.op = "action_stats" =>
        LET stats == result.listing
            by    == stats.by_action_type
        IN  /\ stats.total_actions = Cardinality(InWindow)
            /\ stats.successful_actions =
                  Cardinality({i \in InWindow : healing_actions[i].success})
            /\ stats.total_actions = stats.successful_actions + stats.failed_actions
            /\ DOMAIN by = {healing_actions[i].action_type : i \in InWindow}
            /\ TotalSum(by, DOMAIN by) = stats.total_actions
            /\ \A T \in DOMAIN by :
                  /\ by[T].total = Cardinality(OfType(T))
                  /\ by[T].success =
                        Cardinality({i \in OfType(T) : healing_actions[i].success})
                  /\ by[T].total = by[T].success + by[T].failed
                  /\ IF Timed(T) = {}
                     THEN by[T].avg_resolution_time_seconds = NoAverage
                     ELSE LET avg == by[T].avg_resolution_time_seconds
                              n   == Cardinality(Timed(T))
                          IN  /\ avg.set
                              /\ 2 * Abs(avg.hundredths * n - 100 * TimeSum(Timed(T))) <= n

\* two restarts resolved in 10 s and 11 s and a scale without outcome: the
\* restarts average 10.5 s, the scale has no average
C23_Witness ==
    /\ result.op = "action_stats"
    /\ result.listing.total_actions = 3
    /\ DOMAIN result.listing.by_action_type = {"restart_pod", "scale_deployment"}
    /\ result.listing.by_action_type["restart_pod"].avg_resolution_time_seconds
          = [set |-> TRUE, hundredths |-> 1050]
    /\ result.listing.by_action_type["scale_deployment"].avg_resolution_time_seconds
          = NoAverage

\* the rows of the window that belong to one (namespace, resource, action_type)
Occurrences(kind) ==
    {i \in InWindow : /\ healing_actions[i].namespace = kind.namespace
                      /\ healing_actions[i].resource = kind.resource
                      /\ healing_actions[i].action_type = kind.action_type}

Triple(issue) ==
    [action_type |-> issue.action_type, namespace |-> issue.namespace,
     resource |-> issue.resource]

\* C24: recurring_issues(hours, min_count) returns exactly the (namespace,
\* resource, action_type) groups of the actions of the window that occur
\* min_count times or more, each once, with its exact count and the latest
\* timestamp of the group as last_seen, sorted by occurrences descending.
C24_RecurringIssues ==
    result.op = "recurring_issues" =>
        LET listing == result.listing
        IN  /\ {Triple(listing[i]) : i \in DOMAIN listing} =
                  {kind \in Kinds : /\ Occurrences(kind) # {}
                                    /\ Cardinality(Occurrences(kind)) >= request.arg.min_count}
            /\ \A i, j \in DOMAIN listing :
                  i # j => Triple(listing[i]) # Triple(listing[j])
            /\ \A i \in DOMAIN listing :
                  LET mine == Occurrences(Triple(listing[i]))
                  IN  /\ listing[i].occurrences = Cardinality(mine)
                      /\ \E k \in mine : healing_actions[k].timestamp = listing[i].last_seen
                      /\ \A k \in mine : healing_actions[k].timestamp <= listing[i].last_seen
            /\ \A i, j \in DOMAIN listing :
                  i < j => listing[i].occurrences >= listing[j].occurrences

\* two restarts of one pod and one of another, asked with min_count = 2: only
\* the pod restarted twice is returned
C24_Witness ==
    /\ result.op = "recurring_issues"
    /\ request.arg.min_count = 2
    /\ Cardinality({kind \in Kinds : Occurrences(kind) # {}}) = 2
    /\ Len(result.listing) = 1
    /\ result.listing[1].occurrences = 2
    /\ result.listing[1].action_type = "restart_pod"

\* the pod is one of those the drain leaves alone, in the words of the rule
Excluded(pod) ==
    \/ pod.namespace = "kube-system" /\ ~request.include_kube_system
    \/ pod.mirror
    \/ pod.daemonset /\ request.ignore_daemonsets

\* the names of the pods of the node that are, or are not, left alone
NamesOf(excluded) ==
    LET chosen == SelectSeq(request.pods, LAMBDA pod : Excluded(pod) = excluded)
    IN  [i \in DOMAIN chosen |-> <<chosen[i].namespace, chosen[i].name>>]

\* the elements of a sequence
Range(seq) == {seq[i] : i \in DOMAIN seq}

\* C25: a drain whose listing succeeded puts every pod of the node in exactly
\* one of the evictable pods and skipped_pods; a pod is skipped exactly when
\* it is in kube-system with include_kube_system false, or is a mirror pod,
\* or is DaemonSet-owned with ignore_daemonsets true; eviction requests go to
\* evictable pods only, one request for each of them.
C25_DrainPartition ==
    (request.verb = "drain_node" /\ request.api # "read" /\ ~result.fault) =>
        /\ request.arg = Len(NamesOf(FALSE))
        /\ Len(NamesOf(FALSE)) + Len(NamesOf(TRUE)) = Len(request.pods)
        /\ result.success => result.skipped_pods = NamesOf(TRUE)
        /\ (result.success /\ result.dry_run /\ request.arg > 0) =>
              /\ result.pods = NamesOf(FALSE)
              /\ Len(result.pods) + Len(result.skipped_pods) = Len(request.pods)
              /\ Range(result.pods) \cap Range(result.skipped_pods) = {}
        /\ (result.success /\ ~result.dry_run) =>
              /\ Len(calls) = Len(NamesOf(FALSE))
              /\ Len(result.evicted_pods) + Len(result.failed_evictions) = Len(calls)
              /\ Range(result.evicted_pods) \cup Range(result.failed_evictions)
                    = Range(NamesOf(FALSE))
              /\ (Range(result.evicted_pods) \cup Range(result.failed_evictions))
                    \cap Range(result.skipped_pods) = {}
        /\ ~result.success => calls = <<>>

\* the node with a DaemonSet pod, a kube-system pod, an ordinary pod and a
\* mirror pod, drained with ignore_daemonsets and without include_kube_system:
\* the ordinary pod alone is evicted, the other three are skipped
C25_Witness ==
    /\ request.verb = "drain_node" /\ ~request.dry_run
    /\ request.ignore_daemonsets /\ ~request.include_kube_system
    /\ Len(request.pods) = 4
    /\ ~result.fault /\ result.success
    /\ result.evicted_pods = << <<"default", "web-0">> >>
    /\ calls = <<"evict_pod">>
    /\ Len(result.skipped_pods) = 3

\* the problems created in the window asked for
InListWindow == {i \in DOMAIN problems :
                    problems[i].created_at >= now - request.arg.hours * OneHour}

\* C26: list_problems(hours, limit) returns, for any content of the problems
\* table, at most limit records of the problems of the window, each with its
\* id, created_at, title, namespace, resource, severity, status, summary,
\* fingerprint and last_updated, newest first by last_updated.
C26_ListProblems ==
    result.op = "list_problems" =>
        LET listing == result.listing
            limit   == request.arg.limit
            wanted  == IF Cardinality(InListWindow) < limit
                       THEN Cardinality(InListWindow) ELSE limit
        IN  /\ result.ok
            /\ Len(listing) = wanted
            /\ \A i \in DOMAIN listing :
                  /\ listing[i].id \in InListWindow
                  /\ LET row == problems[listing[i].id]
                     IN  /\ listing[i].created_at = row.created_at
                         /\ listing[i].title = row.title
                         /\ listing[i].status = row.status
                         /\ listing[i].summary = row.summary
                         /\ listing[i].fingerprint = row.fingerprint
                         /\ listing[i].last_updated = row.last_updated
                  /\ \A k \in InListWindow :
                        problems[k].last_updated > listing[i].last_updated =>
                            \E j \in 1..i : listing[j].id = k
            /\ \A i, j \in DOMAIN listing :
                  i < j => listing[i].last_updated >= listing[j].last_updated

\* a step of one of the two batch verbs whose listing succeeded
BatchStep ==
    /\ VerbStep
    /\ request'.verb \in {"delete_failed_pods", "drain_node"}
    /\ request'.api # "read"

\* the answer of the verb carries the verdict of the gate on the batch: a
\* refusal with the gate's reason (for the dry run of a drain, the preview
\* marked would_be_blocked with that reason) exactly when the gate refuses
FollowsVerdict(v) ==
    IF request'.verb = "drain_node" /\ request'.dry_run
    THEN /\ result'.would_be_blocked <=> ~v.allowed
         /\ ~v.allowed => result'.block_reason = v.reason
    ELSE /\ Denied(result') <=> ~v.allowed
         /\ ~v.allowed => result'.error = v.reason

\* C27: delete_failed_pods that finds no pod to delete, and drain_node that
\* finds no evictable pod, succeed with count 0 without consulting the gate,
\* record nothing and make no mutating call, whatever the log holds; with
\* n > 0 matching pods the gate is consulted about n resources.
C27_EmptyBatchUngated ==
    [][BatchStep =>
          IF request'.arg = 0
          THEN /\ ~result'.fault /\ result'.success /\ result'.count = 0
               /\ gated' = 0
               /\ calls' = <<>>
               /\ UNCHANGED <<action_history, healing_actions, agent_activity, cluster>>
          ELSE /\ gated' = 1
               /\ ~result'.fault => FollowsVerdict(Verdict(request'.verb, request'.arg))]_vars

\* with the hourly limit reached, a drain of a node that holds only a
\* kube-system pod succeeded with count 0, the gate not asked
C27_Witness ==
    /\ HourlyLimitReached
    /\ request.verb = "drain_node" /\ ~request.dry_run
    /\ Len(request.pods) = 1 /\ request.arg = 0
    /\ ~result.fault /\ result.success /\ result.count = 0
    /\ gated = 0 /\ calls = <<>>

\* C28: uncordon_node is never gated.  On a cordoned node, with dry_run
\* false and the cluster and the store answering, it patches the node
\* schedulable, records the action and returns success whatever the log
\* holds, the hourly limit reached included; cordon_node on a schedulable
\* node is refused with the gate's reason whenever the gate refuses, as it
\* does at the hourly limit.
C28_UncordonUngated ==
    [][/\ (/\ VerbStep /\ request'.verb = "uncordon_node"
           /\ cluster.unschedulable /\ ~request'.dry_run
           /\ request'.api = "none" /\ ~result'.fault) =>
              /\ result'.success
              /\ gated' = 0
              /\ calls' = <<"patch_node">>
              /\ ~cluster'.unschedulable
              /\ Len(action_history') = Len(action_history) + 1
       /\ (/\ VerbStep /\ request'.verb = "cordon_node"
           /\ ~cluster.unschedulable
           /\ ~Verdict("cordon_node", 1).allowed) =>
              /\ Denied(result')
              /\ result'.error = Verdict("cordon_node", 1).reason
              /\ HourlyLimitReached => result'.error.text = "Rate limit exceeded"
              /\ calls' = <<>> /\ cluster' = cluster]_vars

\* the hourly limit was reached and the cordoned node was made schedulable
\* all the same: the log holds one entry more than the limit
C28_Witness ==
    /\ request.verb = "uncordon_node" /\ ~request.dry_run
    /\ ~result.fault /\ result.success
    /\ calls = <<"patch_node">>
    /\ ~cluster.unschedulable
    /\ Len(action_history) = max_actions_per_hour + 1
    /\ action_history[Len(action_history)].action_type = "uncordon_node"

\* The log without its last `ahead` entries is, one for one and in order, the
\* tail of the healing_actions table, with the same action_type, namespace,
\* resource and success; the rows before that tail are older than 24 hours.
StreamsAgree(ahead) ==
    LET entries == Len(action_history) - ahead
        rows    == Len(healing_actions)
    IN  /\ 0 <= entries /\ entries <= rows
        /\ \A i \in 1..entries :
              LET entry == action_history[i]
                  row   == healing_actions[rows - entries + i]
              IN  /\ entry.action_type = row.action_type
                  /\ entry.namespace = row.namespace
                  /\ entry.resource = row.resource
                  /\ entry.success = row.success
        /\ \A k \in 1..(rows - entries) :
              healing_actions[k].timestamp <= now - OneDay

Logged == Len(action_history') = Len(action_history) + 1

\* the verdict of the gate on the request, as the log stood before the step
RequestVerdict ==
    Verdict(request'.verb,
            IF request'.verb \in {"delete_failed_pods", "drain_node"} THEN request'.arg
            ELSE IF request'.verb = "scale_deployment"
            THEN Abs(request'.arg - cluster.replicas)
            ELSE 1)

\* C30 as stated: every record_action of an invocation is preceded, in that
\* invocation, by a decision of the gate.
C30_GateBeforeRecordAlways ==
    [][(VerbStep /\ Logged) => gated' = 1]_vars

\* C30: an invocation that consults the gate does so before any mutating
\* call and before record_action: a refusal leaves no call and no record,
\* and a record follows a gate that allowed on the log as it stood before.
\* The records that no gate decision precedes are those of uncordon_node,
\* which is not gated, and of a read or listing that failed ahead of the gate.
C30_GateBeforeRecord ==
    [][VerbStep =>
          /\ Denied(result') => gated' = 1 /\ calls' = <<>> /\ ~Logged
          /\ (Logged /\ gated' = 1) => RequestVerdict.allowed
          /\ (Logged /\ gated' = 0) =>
                \/ request'.verb = "uncordon_node"
                \/ request'.api = "read" /\ calls' = <<>>
          /\ (calls' # <<>> /\ request'.verb # "uncordon_node") =>
                gated' = 1 /\ RequestVerdict.allowed]_vars

\* on an empty log a cordoned node was made schedulable and the action
\* recorded, no gate having been asked
C30_Witness ==
    /\ request.verb = "uncordon_node" /\ request.api = "none"
    /\ gated = 0
    /\ calls = <<"patch_node">>
    /\ Len(action_history) = 1 /\ Len(healing_actions) = 1
    /\ action_history[1].action_type = "uncordon_node" /\ action_history[1].success

\* C31: can_perform_action changes neither the log nor the store, whether
\* it allows or refuses.  An invocation that consulted the gate and did not
\* reach record_action (a refusal, a dry run, a no-op found after the gate)
\* leaves the log, healing_actions and agent_activity as they were, so the
\* gate asked again at the same instant gives every verdict it gave before;
\* the log changes only by the one entry record_action appends.
C31_GateReadsOnly ==
    [][VerbStep =>
          /\ (gated' = 1 /\ ~result'.fault /\ result'.action_id = NoId) =>
                /\ UNCHANGED <<action_history, healing_actions, agent_activity>>
                /\ \A T \in ActionTypes, n \in ResourceCounts :
                      can_perform_action(action_history', now', T, n) = Verdict(T, n)
          /\ action_history' # action_history =>
                /\ Logged
                /\ SubSeq(action_history', 1, Len(action_history)) = action_history
                /\ LastEntry.action_type = request'.verb
                /\ LastEntry.timestamp = now]_vars

\* a rollback refused after a storm that reached the hourly limit: the gate
\* was asked, the log still holds the entries of the storm alone
C31_Witness ==
    /\ request.verb = "rollback_deployment" /\ ~request.dry_run
    /\ gated = 1 /\ Denied(result)
    /\ Len(action_history) = max_actions_per_hour
    /\ \A i \in DOMAIN action_history : action_history[i].action_type = "scale_deployment"
    /\ calls = <<>>

\* C32: right after record_action every entry of the log is less than 24
\* hours old, the entry just recorded is the last one, and the timestamps of
\* the log never decrease from one entry to the next.
C32_LogPruned ==
    [][(VerbStep /\ action_history' # action_history) =>
          /\ \A i \in DOMAIN action_history' :
                now - action_history'[i].timestamp < OneDay
          /\ action_history' # <<>>
          /\ LastEntry.timestamp = now
          /\ LastEntry.action_type = request'.verb
          /\ ~result'.fault => LastEntry.success = result'.success
          /\ \A i, j \in DOMAIN action_history' :
                i < j => action_history'[i].timestamp <= action_history'[j].timestamp
          /\ \A i \in DOMAIN action_history :
                now - action_history[i].timestamp < OneDay =>
                    action_history'[i - (Len(action_history) + 1 - Len(action_history'))]
                        = action_history[i]]_vars

\* 24 hours to the second after a storm of eight failed requests a pod is
\* restarted: the eight entries are dropped, the restart alone is in the log
C32_Witness ==
    /\ now = OneDay
    /\ Len(healing_actions) = max_actions_per_hour - 1
    /\ Len(action_history) = 1
    /\ action_history[1].action_type = "restart_pod"
    /\ action_history[1].timestamp = OneDay

\* a batch verb admitted by the gate for a real run over its n > 0 pods
BatchAdmitted ==
    /\ BatchStep
    /\ request'.arg > 0 /\ ~request'.dry_run
    /\ RequestVerdict.allowed

\* how many times the element occurs in the sequence
CountIn(seq, x) == Cardinality({i \in DOMAIN seq : seq[i] = x})

C34_DryRunLeavesLog ==
    [][(VerbStep /\ request'.dry_run) =>
          /\ UNCHANGED <<action_history, healing_actions, agent_activity>>
          /\ \A T \in ActionTypes, n \in ResourceCounts :
                can_perform_action(action_history', now', T, n) = Verdict(T, n)]_vars

\* C35 as stated: the log never holds more than max_actions_per_hour
\* entries of the trailing hour.
C35_HourlyBoundAlways == Cardinality(TrailingHour) <= max_actions_per_hour

\* C35: a record that follows a gate decision is appended only when fewer
\* than max_actions_per_hour entries lie in the trailing hour, and so never
\* takes their number past the limit; only a record that no gate decision
\* precedes (uncordon_node, a read or listing that failed ahead of the gate)
\* adds an entry to a log that already holds the limit.
C35_HourlyBound ==
    [][(VerbStep /\ Logged) =>
          /\ gated' = 1 =>
                /\ Cardinality(TrailingHour) < max_actions_per_hour
                /\ Cardinality(TrailingHour') <= max_actions_per_hour
          /\ Cardinality(TrailingHour) >= max_actions_per_hour =>
                /\ gated' = 0
                /\ \/ request'.verb = "uncordon_node"
                   \/ request'.api = "read"]_vars

\* two entries short of the limit a pod was evicted, the gate allowing: the
\* log holds one entry less than the limit
C35_Witness ==
    /\ request.verb = "evict_pod_from_node" /\ ~request.dry_run
    /\ gated = 1 /\ ~result.fault /\ result.success
    /\ now = 0
    /\ Cardinality(TrailingHour) = max_actions_per_hour - 1
    /\ action_history[Len(action_history)].action_type = "evict_pod_from_node"

\* the log with every entry turned into a success
AsSuccesses == [i \in DOMAIN action_history |-> [action_history[i] EXCEPT !.success = TRUE]]

\* the verb asked for is one that has a gate, and a failed attempt of its
\* type lies inside the cooldown
RetryOfFailure ==
    /\ VerbStep
    /\ request'.verb # "uncordon_node"
    /\ \E i \in CoolingEntries(request'.verb) : ~action_history[i].success

\* C36 as stated: the retry of a type that failed within cooldown_minutes is
\* refused by the cooldown, no mutating call going out.
C36_FailureStartsCooldownAlways ==
    [][RetryOfFailure =>
          /\ Denied(result') /\ result'.error.text = "Cooldown active"
          /\ calls' = <<>>]_vars

\* C36: the gate does not look at the success of an entry: it gives the
\* verdicts it would give were every entry a success.  The retry of a type
\* that failed within cooldown_minutes makes no mutating call, and is refused
\* if it reaches the gate (the dry run of a drain reports the refusal as
\* would_be_blocked): with the "cooldown" reason, unless the hourly limit is
\* reached or the request exceeds the blast radius, whose reasons come
\* first.  A retry that ends ahead of the gate (the read fails again, or
\* there is nothing to do) is not refused.
C36_FailureStartsCooldown ==
    [][/\ \A T \in ActionTypes, n \in ResourceCounts :
             can_perform_action(AsSuccesses, now, T, n) = Verdict(T, n)
       /\ RetryOfFailure =>
             /\ calls' = <<>>
             /\ ~RequestVerdict.allowed
             /\ HourlyLimitReached => RequestVerdict.reason.text = "Rate limit exceeded"
             /\ RequestVerdict.reason.text = "Blast radius too large" =>
                   RequestVerdict.reason.n > max_pods_per_action
             /\ (~HourlyLimitReached /\ RequestVerdict.reason.n <= max_pods_per_action) =>
                   RequestVerdict.reason.text \in {"Cooldown active", "Blast radius too large"}
             /\ (~HourlyLimitReached /\ RequestVerdict.reason.text # "Blast radius too large") =>
                   RequestVerdict.reason.text = "Cooldown active"
             /\ gated' = 1 => FollowsVerdict(RequestVerdict)
             /\ gated' = 0 =>
                   \/ request'.api = "read"
                   \/ request'.verb = "scale_deployment" /\ request'.arg = cluster.replicas
                   \/ request'.verb \in {"delete_failed_pods", "drain_node"}
                         /\ request'.arg = 0]_vars

\* 298 seconds after eight failed scale requests, a request to scale to three
\* replicas is refused for the cooldown and the deployment is not patched
C36_Witness ==
    /\ request.verb = "scale_deployment" /\ ~request.dry_run /\ request.arg = 3
    /\ now = 298
    /\ Len(action_history) = max_actions_per_hour - 2
    /\ \A i \in DOMAIN action_history : ~action_history[i].success
    /\ Denied(result) /\ result.error.text = "Cooldown active"
    /\ calls = <<>> /\ cluster.replicas = 1

\* rows of healing_actions written less than an hour ago
RowsOfTrailingHour ==
    {i \in DOMAIN healing_actions : now - healing_actions[i].timestamp < OneHour}

\* C37: the gate keeps its state for the lifetime of the process only.  A
\* restart empties the log and leaves the rows of the store as they are; on
\* the empty log the gate admits every type for up to max_pods_per_action
\* resources, and the first request after the restart that reaches the gate
\* is admitted, whatever healing_actions holds: max_actions_per_hour rows of
\* the last hour, or a row of the same type inside the cooldown.
C37_GateForgetsOnRestart ==
    [][/\ (ticks' # ticks /\ now' - now <= 1) =>
             /\ action_history' = <<>>
             /\ UNCHANGED <<healing_actions, agent_activity, cluster>>
       /\ (action_history = <<>>) =>
             \A T \in ActionTypes, n \in 0..max_pods_per_action : Verdict(T, n).allowed
       /\ (VerbStep /\ action_history = <<>> /\ healing_actions # <<>> /\ gated' = 1
           /\ ~result'.fault /\ request'.api = "none") =>
             \/ result'.success
             \/ /\ Denied(result') /\ result'.error.text = "Blast radius too large"
                /\ ~RequestVerdict.allowed]_vars

\* the process restarted after a storm of ten failed scale requests, and the
\* deployment was scaled to three replicas at once: eleven rows in the store
\* within the hour and the cooldown, one entry in the log
C37_Witness ==
    /\ request.verb = "scale_deployment" /\ ~request.dry_run /\ request.arg = 3
    /\ now = 0
    /\ ~result.fault /\ result.success
    /\ calls = <<"patch_deployment">>
    /\ cluster.replicas = 3
    /\ Len(action_history) = 1
    /\ Cardinality(RowsOfTrailingHour) = max_actions_per_hour + 1
    /\ \A i \in DOMAIN healing_actions : healing_actions[i].action_type = "scale_deployment"

\* C38 as stated: every row of healing_actions has its one companion row in
\* agent_activity, with intent "healing_action", the same problem id and the
\* outcome "success" or "failed" that matches the row, in every reachable
\* state, those that follow a storage failure inside record_action included.
C38_CompanionActivity ==
    /\ Len(agent_activity) = Len(healing_actions)
    /\ \A i \in DOMAIN healing_actions :
          /\ agent_activity[i].intent = "healing_action"
          /\ agent_activity[i].problem_id = healing_actions[i].problem_id
          /\ agent_activity[i].outcome =
                (IF healing_actions[i].success THEN "success" ELSE "failed")
          /\ agent_activity[i].inputs_summary[1] = healing_actions[i].action_type

\* can_perform_action(T, n) asked d seconds from now, nothing recorded meanwhile
VerdictIn(d, T, n) == can_perform_action(action_history, now + d, T, n)

\* C39: no refusal of the gate lasts.  A request of type T for at most
\* max_pods_per_action resources that is refused for the hourly rate or for
\* the cooldown is admitted one hour later if nothing is recorded meanwhile;
\* a refusal for the cooldown alone ends with the cooldown.
C39_DenialExpires ==
    \A T \in ActionTypes, n \in 0..max_pods_per_action :
        /\ ~Verdict(T, n).allowed =>
              /\ Verdict(T, n).reason.text \in {"Rate limit exceeded", "Cooldown active"}
              /\ VerdictIn(OneHour, T, n).allowed
        /\ (~Verdict(T, n).allowed /\ ~HourlyLimitReached) =>
              /\ VerdictIn(SecondsLeft(T), T, n).allowed
              /\ SecondsLeft(T) > 1 => ~VerdictIn(SecondsLeft(T) - 1, T, n).allowed

\* one hour to the second after a storm that reached the hourly limit, a
\* rollback is admitted and carried out
C39_Witness ==
    /\ now = OneHour
    /\ request.verb = "rollback_deployment" /\ ~request.dry_run
    /\ gated = 1 /\ ~result.fault /\ result.success
    /\ calls = <<"patch_deployment">>
    /\ Len(action_history) = max_actions_per_hour + 1
    /\ \A i \in 1..max_actions_per_hour : action_history[i].timestamp = 0

====
